---- MODULE Spec2Model ----
(***************************************************************************)
(* A model of the screamsheet package: data providers, sections, the       *)
(* document assembler BaseScreamsheet.generate() and the MLB Trade Rumors  *)
(* article selection.                                                      *)
(*                                                                         *)
(* Values fetched from a provider are abstracted to their Python type and  *)
(* their size: None, a list of n records, a dict of n keys, a pandas       *)
(* DataFrame of n rows, or a text of n characters (wf tells whether the    *)
(* text is well-formed paragraph markup).                                  *)
(***************************************************************************)
EXTENDS Integers, Sequences, FiniteSets, TLC

\* ---------------------------------------------------------------- bounds
MaxRows == 2          \* records in one remote payload

\* ------------------------------------------------------- abstract values
None == [t |-> "none", n |-> 0, wf |-> TRUE]
List(n) == [t |-> "list", n |-> n, wf |-> TRUE]
Dict(n) == [t |-> "dict", n |-> n, wf |-> TRUE]
Frame(n) == [t |-> "frame", n |-> n, wf |-> TRUE]
Text(n, wf) == [t |-> "text", n |-> n, wf |-> wf]

\* Python truthiness of a fetched value, as used by "if not self.data".
Truthy(d) == d.t # "none" /\ d.n > 0

\* An empty value: nothing to show.
IsEmpty(d) == d.t = "none" \/ d.n = 0

Providers == {"NHL", "MLB", "NBA", "NFL"}
\* A remote call answers, or fails (requests raises ConnectionError or
\* Timeout, raise_for_status() raises HTTPError): no provider tells the
\* failures apart.
Remotes == {"ok", "error"}
Llms == {"text", "malformed", "empty", "fail"}
Kinds == {"scores", "standings", "boxscore", "summary", "weather"}

\* What the outside world answers during one operation: the outcome of the
\* first remote call and the number of records in its payload, the outcome
\* of the LLM, and the outcome of a second remote call.
Envs == [remote : Remotes, n : 0..MaxRows, llm : Llms, remote2 : Remotes]

\* The answers that matter to a section of the given kind: only the game
\* summary uses the LLM, only BoxScoreSection makes a second remote call.
EnvsFor(kind) ==
    {e \in Envs :
        /\ (kind \notin {"summary", "boxscore"} => e.llm = "text")
        /\ (kind # "boxscore" => e.remote2 = "ok")}

\* The result of a call: a returned value or an exception.
Ret(v) == [raised |-> FALSE, val |-> v]
Raise == [raised |-> TRUE, val |-> None]

\* ------------------------------------------------------------- providers
NHL_get_game_scores(remote, n) ==
    IF remote # "ok" THEN Raise ELSE Ret(List(n))

MLB_get_game_scores(remote, n) ==
    IF remote # "ok" THEN Raise ELSE Ret(List(n))

NBA_get_game_scores(remote, n) ==
    IF remote # "ok" THEN Ret(List(0)) ELSE Ret(List(n))

NFL_get_game_scores(week, remote, n) ==
    IF ~week THEN Ret(List(0))
    ELSE IF remote # "ok" THEN Ret(List(0)) ELSE Ret(List(n))

get_game_scores(p, week, remote, n) ==
    CASE p = "NHL" -> NHL_get_game_scores(remote, n)
      [] p = "MLB" -> MLB_get_game_scores(remote, n)
      [] p = "NBA" -> NBA_get_game_scores(remote, n)
      [] p = "NFL" -> NFL_get_game_scores(week, remote, n)

\* An empty payload makes DataFrame([]).sort_values(by=[...]) raise KeyError.
NHL_get_standings(remote, n) ==
    IF remote # "ok" THEN Raise
    ELSE IF n = 0 THEN Raise ELSE Ret(Frame(n))

MLB_get_standings(remote, n) ==
    IF remote # "ok" THEN Raise ELSE Ret(Frame(n))

NBA_get_standings(remote, n) ==
    IF remote # "ok" THEN Ret(Frame(0)) ELSE Ret(Frame(n))

NFL_get_standings(remote, n) ==
    IF remote # "ok" THEN Ret(Frame(0)) ELSE Ret(Frame(n))

get_standings(p, remote, n) ==
    CASE p = "NHL" -> NHL_get_standings(remote, n)
      [] p = "MLB" -> MLB_get_standings(remote, n)
      [] p = "NBA" -> NBA_get_standings(remote, n)
      [] p = "NFL" -> NFL_get_standings(remote, n)

\* NHLDataProvider._get_game_pk: the id of the team's completed game, found
\* only when the schedule request works and lists such a game (n > 0).
_get_game_pk(remote, n) == remote = "ok" /\ n > 0

\* get_game_pk(team_id, game_date) of get_box_score_nhl.py starts with
\* game_date.strftime(...), before its try: an argument that is not a
\* datetime raises AttributeError.
get_game_pk(game_date) ==
    IF game_date # "datetime" THEN Raise ELSE Ret(Text(1, TRUE))

\* get_nhl_boxscore(team_id, game_date): looks the game up by date again and
\* returns the dict of the two tables.
get_nhl_boxscore(game_date) ==
    IF get_game_pk(game_date).raised THEN Raise ELSE Ret(Dict(2))

\* NHLDataProvider.get_box_score: None without a game; else
\* get_nhl_boxscore(team_id, game_pk), the game id (an int) in the place of
\* the date, and None for any exception.
NHL_get_box_score(remote, n) ==
    IF ~_get_game_pk(remote, n) THEN Ret(None)
    ELSE LET b == get_nhl_boxscore("int")
         IN IF b.raised THEN Ret(None) ELSE b

\* MLB: parse_boxscore always returns the two-key dict, also for no data.
MLB_get_box_score(remote, n) == Ret(Dict(2))

get_box_score(p, remote, n) ==
    CASE p = "NHL" -> NHL_get_box_score(remote, n)
      [] p = "MLB" -> MLB_get_box_score(remote, n)
      [] OTHER -> Ret(None)

\* The text the summary generator returns once the game data is there.
_generate_llm_summary(llm) ==
    CASE llm = "text" -> Text(1, TRUE)
      [] llm = "malformed" -> Text(1, FALSE)
      [] llm = "empty" -> Text(0, TRUE)
      [] llm = "fail" -> Text(1, TRUE)

\* The steps of a game summary: the schedule lookup for the team's game,
\* the fetch of the game feed, and the LLM (no_key: no API key configured).
ScheduleLookups == {"found", "no_game", "fail"}
GameFeeds == {"ok", "unparseable", "fail"}
SummaryLlms == Llms \cup {"no_key"}

\* _fetch_raw_game_data of the NHL generator: None on a failed request.
\* _extract_key_info: a message string in place of the game details when
\* there is no raw data or it cannot be parsed.
_extract_key_info(league, feed) ==
    CASE feed = "fail" -> "No game data available."
      [] feed = "unparseable" ->
            IF league = "MLB"
            THEN "Could not parse MLB game details for summary generation."
            ELSE "Could not parse NHL game details for summary generation."
      [] OTHER -> "details"

\* BaseGameSummaryGenerator._generate_llm_summary(extracted_info): a message
\* string is handed back as the summary; an LLM exception gives the fixed
\* failure sentence.
SummaryText(extracted_info, llm) ==
    IF extracted_info # "details" THEN extracted_info
    ELSE CASE llm = "no_key" -> "default text"
           [] llm = "fail" -> "Summary generation failed."
           [] llm = "empty" -> ""
           [] llm = "malformed" -> "malformed summary"
           [] OTHER -> "summary"

\* NHLDataProvider.get_game_summary: None when _get_game_pk finds no
\* completed game or its request fails; else what generate_summary returns.
NHL_game_summary(sched, feed, llm) ==
    IF sched # "found" THEN "None"
    ELSE SummaryText(_extract_key_info("NHL", feed), llm)

\* MLBDataProvider.get_game_summary: GameSummaryGeneratorMLB looks the game
\* up itself; no game and a failed request both leave no raw data.
MLB_game_summary(sched, feed, llm) ==
    SummaryText(_extract_key_info("MLB", IF sched # "found" THEN "fail" ELSE feed), llm)

game_summary(league, sched, feed, llm) ==
    IF league = "NHL" THEN NHL_game_summary(sched, feed, llm)
    ELSE MLB_game_summary(sched, feed, llm)

NHL_get_game_summary(remote, n, llm) ==
    IF remote # "ok" \/ n = 0 THEN Ret(None)
    ELSE Ret(_generate_llm_summary(llm))

MLB_get_game_summary(remote, n, llm) ==
    IF remote # "ok" \/ n = 0 THEN Ret(Text(1, TRUE))
    ELSE Ret(_generate_llm_summary(llm))

get_game_summary(p, remote, n, llm) ==
    CASE p = "NHL" -> NHL_get_game_summary(remote, n, llm)
      [] p = "MLB" -> MLB_get_game_summary(remote, n, llm)
      [] OTHER -> Ret(None)

\* WeatherProvider: a failed fetch gives [], else at most 5 day entries.
get_5_day_forecast(remote, n) ==
    IF remote # "ok" THEN Ret(List(0))
    ELSE Ret(List(IF n > 5 THEN 5 ELSE n))

\* A record of one provider call.
Call(m, p, remote, o) ==
    [method |-> m, provider |-> p, remote |-> remote,
     raised |-> o.raised, val |-> o.val]

NoCall == [method |-> "none", provider |-> "none", remote |-> "ok",
           raised |-> FALSE, val |-> None]

\* -------------------------------------------------------------- sections
Section(kind) == [kind |-> kind, data |-> None]

Flow(k, src, n, x) == [k |-> k, src |-> src, n |-> n, x |-> x]
Spacer(h) == Flow("Spacer", "", h, "")

\* The provider call behind fetch_data() of each section class.
ProviderCall(kind, p, week, e) ==
    CASE kind = "scores" ->
            Call("get_game_scores", p, e.remote, get_game_scores(p, week, e.remote, e.n))
      [] kind = "standings" ->
            Call("get_standings", p, e.remote, get_standings(p, e.remote, e.n))
      [] kind = "boxscore" ->
            Call("get_box_score", p, e.remote, get_box_score(p, e.remote, e.n))
      [] kind = "summary" ->
            Call("get_game_summary", p, e.remote, get_game_summary(p, e.remote, e.n, e.llm))
      [] kind = "weather" ->
            Call("get_5_day_forecast", "NWS", e.remote, get_5_day_forecast(e.remote, e.n))

\* fetch_data(): self.data = provider call; an exception of the provider
\* propagates and leaves self.data as it was.
fetch_data(s, p, week, e) ==
    LET c == ProviderCall(s.kind, p, week, e)
    IN [raised |-> c.raised,
        data |-> IF c.raised THEN s.data ELSE c.val,
        calls |-> <<c>>]

\* The value of the return expression of Section.has_content().
HasContentValue(d) ==
    IF d.t \in {"list", "dict"} THEN d.t # "none" /\ d.n > 0
    ELSE d.t # "none"

\* Section.has_content(): fetch when self.data is None, then the expression.
has_content(s, p, week, e) ==
    LET f == IF s.data.t = "none" THEN fetch_data(s, p, week, e)
             ELSE [raised |-> FALSE, data |-> s.data, calls |-> <<>>]
    IN [raised |-> f.raised, data |-> f.data, calls |-> f.calls,
        ret |-> ~f.raised /\ HasContentValue(f.data)]

\* A render() that fetches whatever it holds.
RenderFetches_Always(s) == TRUE

\* The guard that makes render() fetch: "if not self.data" in every section
\* class but StandingsSection, which tests "self.data is None".
RenderFetches(s) ==
    IF s.kind = "standings" THEN s.data.t = "none" ELSE ~Truthy(s.data)

\* The guard that makes render() return [].
RenderNothing(kind, d) ==
    IF kind = "standings" THEN d.t = "none" \/ (d.t = "frame" /\ d.n = 0)
    ELSE ~Truthy(d)

\* The columns of the DataFrame each provider's get_standings() builds.
StandingsColumns(p) ==
    CASE p = "NHL" -> {"conference", "division", "team", "divisionRank", "GP", "W", "L",
                       "OTL", "P", "PCT", "GF", "GA", "DIFF", "STRK"}
      [] p = "MLB" -> {"division", "team", "wins", "losses", "ties", "pct", "divisionRank"}
      [] p = "NFL" -> {"conference", "team", "wins", "losses", "ties", "winPercent",
                       "pointDifferential", "divisionWinPercent"}
      [] p = "NBA" -> {"conference", "team", "wins", "losses", "pct", "conf_record",
                       "division_rank"}
      [] OTHER -> {}

\* The if/elif chain of StandingsSection.render() that picks the renderer
\* from the columns; the first test that holds wins.
StandingsLayout(columns) ==
    IF "division" \in columns THEN "_render_mlb_standings"
    ELSE IF "conference" \in columns /\ "GP" \in columns THEN "_render_nhl_standings"
    ELSE IF "conference" \in columns /\ "winPercent" \in columns
    THEN "_render_nfl_standings"
    ELSE IF "conference" \in columns THEN "_render_nba_standings"
    ELSE "_render_generic_standings"

\* The flowables render() builds from non-empty data. BoxScoreSection asks
\* the provider for the game summary (gs) while it renders.
Flowables(kind, d, gs, p) ==
    CASE kind = "scores" -> <<Flow("Table", "scores", d.n, "")>>
      [] kind = "standings" ->
            <<Flow("Paragraph", "standings", 0, "title"), Spacer(12),
              Flow("Table", "standings", d.n, StandingsLayout(StandingsColumns(p)))>>
      [] kind = "boxscore" ->
            <<Flow("Table", "boxscore", d.n,
                   IF Truthy(gs) THEN "summary" ELSE "[No game summary available]")>>
      [] kind = "summary" ->
            <<Flow("Paragraph", "summary", 0, "title"), Spacer(12),
              Flow("Paragraph", "summary", d.n, "")>>
      [] kind = "weather" -> <<Flow("Table", "weather", d.n, "")>>

\* The body of render() of the section classes; fetches tells whether the
\* guard at its top calls fetch_data().
RenderBody(s, p, week, e, fetches) ==
    LET f == IF fetches THEN fetch_data(s, p, week, e)
             ELSE [raised |-> FALSE, data |-> s.data, calls |-> <<>>]
        g == get_game_summary(p, e.remote2, e.n, e.llm)
        asks == ~f.raised /\ ~RenderNothing(s.kind, f.data) /\ s.kind = "boxscore"
        calls == IF asks
                 THEN f.calls \o <<Call("get_game_summary", p, e.remote2, g)>>
                 ELSE f.calls
        \* Paragraph(text) raises on text that is not well-formed markup
        bad == \/ (asks /\ Truthy(g.val) /\ ~g.val.wf)
               \/ (s.kind = "summary" /\ ~f.data.wf)
    IN IF f.raised
       THEN [raised |-> TRUE, data |-> f.data, calls |-> f.calls,
             fetched |-> TRUE, out |-> <<>>]
       ELSE IF RenderNothing(s.kind, f.data)
       THEN [raised |-> FALSE, data |-> f.data, calls |-> f.calls,
             fetched |-> fetches, out |-> <<>>]
       ELSE IF bad
       THEN [raised |-> TRUE, data |-> f.data, calls |-> calls,
             fetched |-> fetches, out |-> <<>>]
       ELSE [raised |-> FALSE, data |-> f.data, calls |-> calls,
             fetched |-> fetches, out |-> Flowables(s.kind, f.data, g.val, p)]

\* A render() that fetches on every call.
render_refetching(s, p, week, e) == RenderBody(s, p, week, e, TRUE)

\* render() of the section classes.
render(s, p, week, e) == RenderBody(s, p, week, e, RenderFetches(s))

\* ------------------------------------------------ MLB Trade Rumors provider
\* Strings are sequences of characters.
UpperCase == <<"A", "B", "C", "D", "E", "F", "G", "H", "I", "J", "K", "L", "M",
               "N", "O", "P", "Q", "R", "S", "T", "U", "V", "W", "X", "Y", "Z">>
LowerCase == <<"a", "b", "c", "d", "e", "f", "g", "h", "i", "j", "k", "l", "m",
               "n", "o", "p", "q", "r", "s", "t", "u", "v", "w", "x", "y", "z">>

\* str.lower() on one character and on a string.
UpperToLower ==
    [c \in {UpperCase[i] : i \in 1..26} |->
        LowerCase[CHOOSE i \in 1..26 : UpperCase[i] = c]]

LowerChar(c) == IF c \in DOMAIN UpperToLower THEN UpperToLower[c] ELSE c

lower(s) == [i \in 1..Len(s) |-> LowerChar(s[i])]

\* Python's "sub in s" on strings.
Contains(s, sub) ==
    \E i \in 1..(Len(s) - Len(sub) + 1) : SubSeq(s, i, i + Len(sub) - 1) = sub

EXCLUSION_KEYWORDS ==
    <<<<"T", "o", "p", " ", "5", "0">>,
      <<"C", "o", "n", "t", "e", "s", "t">>,
      <<"P", "r", "e", "d", "i", "c", "t", "i", "o", "n">>,
      <<"S", "u", "b", "s", "c", "r", "i", "b", "e", "r", "s">>,
      <<"E", "m", "a", "i", "l", " ", "L", "i", "s", "t">>,
      <<"P", "r", "e", "s", "e", "n", "t", "s", " ", "O", "u", "r">>,
      <<"P", "o", "d", "c", "a", "s", "t">>,
      <<"L", "i", "v", "e", " ", "C", "h", "a", "t">>,
      <<"Q", "&", "A">>,
      <<"A", "s", "k", " ", "U", "s", " ", "A", "n", "y", "t", "h", "i", "n", "g">>,
      <<"B", "e", "s", "t", " ", "o", "f">>,
      <<"M", "L", "B", "T", "R", " ", "C", "h", "a", "t">>,
      <<"F", "r", "o", "n", "t", " ", "O", "f", "f", "i", "c", "e">>>>

Phillies == <<"P", "h", "i", "l", "l", "i", "e", "s">>
Padres == <<"P", "a", "d", "r", "e", "s">>
Yankees == <<"Y", "a", "n", "k", "e", "e", "s">>
T_Padres == <<"P", "a", "d", "r", "e", "s">>
T_Phillies == <<"P", "h", "i", "l", "l", "i", "e", "s">>
T_Both == <<"P", "h", "i", "l", "l", "i", "e", "s", "-", "P", "a", "d", "r", "e", "s">>
T_Mets == <<"M", "e", "t", "s">>
T_PadresQA == <<"P", "a", "d", "r", "e", "s", " ", "q", "&", "a">>
S_Plain == <<"n", "e", "w", "s">>
S_BestOf == <<"B", "E", "S", "T", " ", "O", "F">>

\* ---------------------------------------------------------------- bounds
MaxFeed == 3          \* entries in the RSS feed
MaxTeams == 2         \* favorite teams given to the provider
MaxSlots == 4         \* largest max_articles

Teams == {Phillies, Padres}
Titles == {T_Padres, T_Phillies, T_Both, T_Mets, T_PadresQA}
Summaries == {S_Plain, S_BestOf}

\* A feed entry: title, summary and link. Every entry has a link of its own,
\* but the second entry may repeat the link of the first.
Links(i) == IF i = 2 THEN {1, 2} ELSE {i}

Entries(i) ==
    {en \in [title : Titles, summary : Summaries, link : Links(i)] :
        en.summary = S_Plain \/ en.title = T_Padres}

Feeds ==
    UNION {{f \in [1..n -> UNION {Entries(i) : i \in 1..n}] :
                \A i \in 1..n : f[i] \in Entries(i)} : n \in 0..MaxFeed}

FavoriteLists == UNION {[1..n -> Teams] : n \in 0..MaxTeams}

\* MLBTradeRumorsProvider.__init__: favorite_teams or the default list.
DefaultFavorites == <<Phillies, Padres, Yankees>>
InitFavorites(favs) == IF favs = <<>> THEN DefaultFavorites ELSE favs

\* An _is_garbage() that looks at the title only.
_is_garbage_title_only(entry) ==
    \E k \in 1..Len(EXCLUSION_KEYWORDS) :
        Contains(lower(entry.title), lower(EXCLUSION_KEYWORDS[k]))

\* keyword.lower() for each keyword of the blacklist.
LoweredKeywords == [k \in 1..Len(EXCLUSION_KEYWORDS) |-> lower(EXCLUSION_KEYWORDS[k])]

\* _is_garbage(): a blacklisted keyword in the title or in the summary,
\* both sides lower-cased.
_is_garbage(entry) ==
    LET title == lower(entry.title)
        summary == lower(entry.summary)
    IN \E k \in 1..Len(LoweredKeywords) :
        \/ Contains(title, LoweredKeywords[k])
        \/ Contains(summary, LoweredKeywords[k])

\* clean_entries: the feed without the garbage entries, in feed order.
CleanEntries(f) == SelectSeq(f, LAMBDA en : ~_is_garbage(en))

\* team_priority = {team: i for i, team in enumerate(favorite_teams)}:
\* a dict, so a team named twice keeps its last index.
team_priority(favs) ==
    [t \in {favs[i] : i \in 1..Len(favs)} |->
        (CHOOSE i \in 1..Len(favs) :
            favs[i] = t /\ \A j \in 1..Len(favs) : favs[j] = t => j <= i) - 1]

RECURSIVE SortedSeq(_)
SortedSeq(S) ==
    IF S = {} THEN <<>>
    ELSE LET m == CHOOSE x \in S : \A y \in S : x <= y
         IN <<m>> \o SortedSeq(S \ {m})

\* sorted(self.team_priority.values())
SortedPriorities(favs) ==
    LET tp == team_priority(favs)
    IN SortedSeq({tp[t] : t \in DOMAIN tp})

\* An inner loop that looks for the team name in the summary.
RECURSIVE FirstMatch_InSummary(_, _, _, _)
FirstMatch_InSummary(clean, i, team_name, selected_guids) ==
    IF i > Len(clean) THEN 0
    ELSE IF clean[i].link \notin selected_guids /\ Contains(clean[i].summary, team_name)
         THEN i
         ELSE FirstMatch_InSummary(clean, i + 1, team_name, selected_guids)

\* The inner loop of the team slots: the position of the first entry from
\* position i on whose link is not selected and whose title contains the
\* team name; 0 when there is none.
RECURSIVE FirstMatch(_, _, _, _)
FirstMatch(clean, i, team_name, selected_guids) ==
    IF i > Len(clean) THEN 0
    ELSE IF clean[i].link \notin selected_guids /\ Contains(clean[i].title, team_name)
         THEN i
         ELSE FirstMatch(clean, i + 1, team_name, selected_guids)

\* A loop over the priorities that does not record the links it selects.
RECURSIVE FillTeamSlots_NotRecording(_, _, _, _, _, _)
FillTeamSlots_NotRecording(clean, favs, max_articles, prios, sel, selected_guids) ==
    IF prios = <<>> \/ Head(prios) + 1 >= max_articles
    THEN [final_selection |-> sel, selected_guids |-> selected_guids]
    ELSE LET priority == Head(prios)
             team_name == favs[priority + 1]
             slot_index == priority + 1
             m == FirstMatch(clean, 1, team_name, selected_guids)
         IN IF m = 0
            THEN FillTeamSlots_NotRecording(clean, favs, max_articles, Tail(prios), sel,
                                            selected_guids)
            ELSE FillTeamSlots_NotRecording(clean, favs, max_articles, Tail(prios),
                                            [sel EXCEPT ![slot_index + 1] = m],
                                            selected_guids)

\* The loop over the priorities. final_selection holds, for each slot, the
\* position of its entry in clean_entries, 0 for None.
RECURSIVE FillTeamSlots(_, _, _, _, _, _)
FillTeamSlots(clean, favs, max_articles, prios, sel, selected_guids) ==
    IF prios = <<>> \/ Head(prios) + 1 >= max_articles
    THEN [final_selection |-> sel, selected_guids |-> selected_guids]
    ELSE LET priority == Head(prios)
             team_name == favs[priority + 1]
             slot_index == priority + 1
             m == FirstMatch(clean, 1, team_name, selected_guids)
         IN IF m = 0
            THEN FillTeamSlots(clean, favs, max_articles, Tail(prios), sel, selected_guids)
            ELSE FillTeamSlots(clean, favs, max_articles, Tail(prios),
                               [sel EXCEPT ![slot_index + 1] = m],
                               selected_guids \cup {clean[m].link})

\* A remaining_entries that forgets the selected links.
RemainingEntries_All(clean, selected_guids) == [i \in 1..Len(clean) |-> i]

\* remaining_entries: positions of the clean entries whose link is not selected.
RemainingEntries(clean, selected_guids) ==
    SelectSeq([i \in 1..Len(clean) |-> i], LAMBDA i : clean[i].link \notin selected_guids)

\* A while loop that stops at the first slot a team already holds.
RECURSIVE FillRemaining_Stopping(_, _, _, _)
FillRemaining_Stopping(sel, fill_index, entry_index, remaining) ==
    IF ~(fill_index < Len(sel) /\ entry_index < Len(remaining)) THEN sel
    ELSE IF sel[fill_index + 1] = 0
         THEN FillRemaining_Stopping(
                  [sel EXCEPT ![fill_index + 1] = remaining[entry_index + 1]],
                  fill_index + 1, entry_index + 1, remaining)
         ELSE sel

\* The while loop that fills the remaining slots with general articles.
RECURSIVE FillRemaining(_, _, _, _)
FillRemaining(sel, fill_index, entry_index, remaining) ==
    IF ~(fill_index < Len(sel) /\ entry_index < Len(remaining)) THEN sel
    ELSE IF sel[fill_index + 1] = 0
         THEN FillRemaining([sel EXCEPT ![fill_index + 1] = remaining[entry_index + 1]],
                            fill_index + 1, entry_index + 1, remaining)
         ELSE FillRemaining(sel, fill_index + 1, entry_index, remaining)

\* final_selection once the team slots are filled.
TeamSelection(clean, favs, max_articles) ==
    FillTeamSlots(clean, favs, max_articles, SortedPriorities(favs),
                  [i \in 1..max_articles |-> 0], {})

\* final_selection at the end of get_articles().
FinalSelection(clean, favs, max_articles) ==
    LET t == TeamSelection(clean, favs, max_articles)
    IN FillRemaining(t.final_selection, 0, 0, RemainingEntries(clean, t.selected_guids))

\* output_list: the slots that are not None, labelled "Section i+1".
OutputList(clean, sel) ==
    LET idx == SelectSeq([i \in 1..Len(sel) |-> i], LAMBDA i : sel[i] # 0)
    IN [j \in 1..Len(idx) |-> [slot |-> idx[j], entry |-> clean[sel[idx[j]]]]]

\* ------------------------------------------------------- schedule scores
MaxGames == 2         \* games of one day in a schedule payload

\* Two target dates; ScheduleUrl is the URL the request goes to.
Dates == {"2023-11-23", "2023-11-24"}
ScheduleUrl(host, game_date) == [host |-> host, path |-> "schedule", date |-> game_date]

\* A score the payload does not carry (.get('score') is None).
NoScore == -1
RawScores == {NoScore, 0, 4}

\* NHL schedule payload: data['gameWeek'] is a list of days, each with its
\* list of games; the key may be absent.
GameStates == {"FINAL", "OFF", "LIVE", "FUT"}
NHLTeams == {[placeName |-> "Carolina", commonName |-> "Hurricanes"],
             [placeName |-> "Tampa Bay", commonName |-> "Lightning"]}
NHLGames ==
    [gameState : GameStates, awayTeam : NHLTeams,
     homeTeam : {[placeName |-> "Philadelphia", commonName |-> "Flyers"]},
     awayScore : RawScores, homeScore : {NoScore, 4}]
SeqsUpTo(S, n) == UNION {[1..k -> S] : k \in 0..n}
NHLDays == {[games |-> g] : g \in SeqsUpTo(NHLGames, MaxGames)}
NextDay == [games |-> <<>>]
NHLPayloads ==
    {[league |-> "NHL", hasKey |-> FALSE, days |-> <<>>],
     [league |-> "NHL", hasKey |-> TRUE, days |-> <<>>]}
      \cup {[league |-> "NHL", hasKey |-> TRUE, days |-> <<d>>] : d \in NHLDays}
      \cup {[league |-> "NHL", hasKey |-> TRUE, days |-> <<d, NextDay>>] : d \in NHLDays}

\* MLB schedule payload: data['dates'] is a list of dates, each with its
\* list of games of any status.
DetailedStates == {"Final", "Postponed", "Scheduled"}
MLBGames == [detailedState : DetailedStates, awayScore : {NoScore, 4}, homeScore : {0}]
MLBPayloads ==
    {[league |-> "MLB", hasKey |-> FALSE, days |-> <<>>],
     [league |-> "MLB", hasKey |-> TRUE, days |-> <<>>]}
      \cup {[league |-> "MLB", hasKey |-> TRUE, days |-> <<[games |-> g]>>] :
                g \in SeqsUpTo(MLBGames, MaxGames)}

\* The functions that read a schedule, and the payloads each can be served.
ScoreFunctions ==
    {"get_game_scores_for_day", "NHLDataProvider.get_game_scores",
     "MLBDataProvider.get_game_scores"}
PayloadsFor(fn) ==
    IF fn = "MLBDataProvider.get_game_scores" THEN MLBPayloads ELSE NHLPayloads

\* The games whose state the NHL functions keep.
ShownStates_Any == GameStates
ShownStates == {"FINAL", "OFF", "LIVE"}

\* f"{place} {common}"
FullName(t) == <<t.placeName, " ", t.commonName>>
\* int(raw) if raw is not None else 0
ScoreOf(raw) == IF raw = NoScore THEN 0 ELSE raw

\* One GameScore of the NHL functions.
NHLGameScore(game) ==
    [away_team |-> FullName(game.awayTeam), home_team |-> FullName(game.homeTeam),
     away_score |-> ScoreOf(game.awayScore), home_score |-> ScoreOf(game.homeScore),
     status |-> game.gameState]

RECURSIVE NHLScoresOf(_)
NHLScoresOf(games) ==
    IF games = <<>> THEN <<>>
    ELSE LET rest == NHLScoresOf(Tail(games))
         IN IF Head(games).gameState \in ShownStates
            THEN <<NHLGameScore(Head(games))>> \o rest ELSE rest

\* data.get('gameWeek', [{}])[0].get('games', []) and the loop over it; [0]
\* of an empty list raises IndexError.
NHL_games_of_schedule(data) ==
    LET week == IF data.hasKey THEN data.days ELSE <<NextDay>>
    IN IF week = <<>> THEN [raised |-> TRUE, val |-> <<>>]
       ELSE [raised |-> FALSE, val |-> NHLScoresOf(week[1].games)]

\* One game record of MLBDataProvider.get_game_scores: every game of the
\* payload, whatever its status; a missing score stays None.
MLBGameScore(game) ==
    [away_team |-> <<"away">>, home_team |-> <<"home">>,
     away_score |-> game.awayScore, home_score |-> game.homeScore,
     status |-> game.detailedState]

RECURSIVE MLBScoresOf(_)
MLBScoresOf(days) ==
    IF days = <<>> THEN <<>>
    ELSE [k \in DOMAIN Head(days).games |-> MLBGameScore(Head(days).games[k])]
            \o MLBScoresOf(Tail(days))

MLB_games_of_schedule(data) ==
    [raised |-> FALSE, val |-> MLBScoresOf(IF data.hasKey THEN data.days ELSE <<>>)]

\* requests.get(url); raise_for_status(); then the games of the payload.
ScheduleScores(fn, game_date, ok, data) ==
    LET host == IF fn = "MLBDataProvider.get_game_scores"
                THEN "statsapi.mlb.com" ELSE "api-web.nhle.com"
        r == IF fn = "MLBDataProvider.get_game_scores"
             THEN MLB_games_of_schedule(data) ELSE NHL_games_of_schedule(data)
    IN [requests |-> <<ScheduleUrl(host, game_date)>>,
        raised |-> ~ok \/ r.raised,
        val |-> IF ok THEN r.val ELSE <<>>]

\* ------------------------------------------------------------- standings
MaxDivisions == 2     \* division records of a standings payload
MaxDivTeams == 2      \* teams of one division record

\* A division name as the words str.contains() is asked about; the sequence
\* DivisionOrder lists the names in string order. "Unknown Division" is
\* what _get_division returns when the lookup of the name fails.
UnknownDivision == <<"Unknown Division">>
DivisionOrder ==
    <<<<"American League", "East">>, <<"American League", "West">>,
      <<"National League", "East">>, UnknownDivision>>
DivisionNames == {DivisionOrder[k] : k \in DOMAIN DivisionOrder}
NameIndex(name) == CHOOSE k \in DOMAIN DivisionOrder : DivisionOrder[k] = name

\* The divisionRank values of the teams of one record, in payload order.
RankLists ==
    UNION {{r \in [1..n -> 1..MaxDivTeams] : \A i, j \in 1..n : i # j => r[i] # r[j]} :
              n \in 1..MaxDivTeams}

\* data['records']: each record with the name its division link resolves
\* to and its teamRecords.
StandingsPayloads ==
    SeqsUpTo([name : DivisionNames, ranks : RankLists], MaxDivisions)

\* team_list: one row per team of every record, in payload order.
RECURSIVE TeamList(_, _)
TeamList(records, d) ==
    IF d > Len(records) THEN <<>>
    ELSE [k \in DOMAIN records[d].ranks |->
             [division |-> records[d].name, team |-> <<d, k>>,
              divisionRank |-> records[d].ranks[k]]]
           \o TeamList(records, d + 1)

\* The order of sort_values(by=['division', 'divisionRank']).
RowBefore(a, b) ==
    \/ NameIndex(a.division) < NameIndex(b.division)
    \/ a.division = b.division /\ a.divisionRank < b.divisionRank

\* DataFrame.sort_values: rows in key order, equal keys in input order.
SortValues(rows) ==
    LET RECURSIVE Ins(_, _)
        Ins(r, sorted) ==
            IF sorted = <<>> THEN <<r>>
            ELSE IF RowBefore(r, Head(sorted)) THEN <<r>> \o sorted
            ELSE <<Head(sorted)>> \o Ins(r, Tail(sorted))
        RECURSIVE Srt(_)
        Srt(rs) == IF rs = <<>> THEN <<>>
                   ELSE Ins(rs[Len(rs)], Srt(SubSeq(rs, 1, Len(rs) - 1)))
    IN Srt(rows)

\* MLBDataProvider.get_standings(): the request, the flattening of the
\* records and the sort; an empty DataFrame when there is no team.
MLB_standings(ok, records) ==
    IF ~ok THEN [raised |-> TRUE, val |-> <<>>]
    ELSE [raised |-> FALSE, val |-> SortValues(TeamList(records, 1))]

\* df[df['division'].str.contains(word)]
Containing(rows, word) ==
    SelectSeq(rows, LAMBDA r : \E i \in DOMAIN r.division : r.division[i] = word)

divisions_order == <<"East", "Central", "West">>
Leagues == <<"American League", "National League">>

\* One cell of the grid: the inner table of a division, or '' (no block).
GridCell(rows, league, geography) ==
    LET group == Containing(Containing(rows, league), geography)
    IN IF group = <<>> THEN <<>>
       ELSE <<[header |-> <<league, geography>>, rows |-> group]>>

\* StandingsSection._render_mlb_standings: a row per geography with the
\* American League cell, then the National League cell.
_render_mlb_standings(rows) ==
    LET RECURSIVE Grid(_)
        Grid(g) ==
            IF g > Len(divisions_order) THEN <<>>
            ELSE GridCell(rows, Leagues[1], divisions_order[g])
                   \o GridCell(rows, Leagues[2], divisions_order[g])
                   \o Grid(g + 1)
    IN Grid(1)

\* StandingsSection.render() on the DataFrame of an MLB provider: nothing
\* for an empty DataFrame, else the grid with its fixed labels.
Standings_render(df) ==
    IF df = <<>> THEN [raised |-> FALSE, labels |-> <<>>, blocks |-> <<>>]
    ELSE [raised |-> FALSE, labels |-> divisions_order,
          blocks |-> _render_mlb_standings(df)]

\* create_standings_flowables: groupby('division') walks the division names
\* in sorted order, the rows of each group in DataFrame order; an empty
\* DataFrame has no 'division' column and groupby raises KeyError.
create_standings_flowables(df) ==
    LET RECURSIVE Groups(_)
        Groups(k) ==
            IF k > Len(DivisionOrder) THEN <<>>
            ELSE LET group == SelectSeq(df, LAMBDA r : r.division = DivisionOrder[k])
                 IN (IF group = <<>> THEN <<>>
                     ELSE <<[header |-> DivisionOrder[k], rows |-> group]>>)
                      \o Groups(k + 1)
    IN IF df = <<>> THEN [raised |-> TRUE, labels |-> <<>>, blocks |-> <<>>]
       ELSE [raised |-> FALSE, labels |-> <<>>, blocks |-> Groups(1)]

StandingsRenderers == {"StandingsSection.render", "create_standings_flowables"}

\* Payload to rendered standings: get_standings, then the renderer.
RenderStandings(renderer, ok, records) ==
    LET st == MLB_standings(ok, records)
        r == IF renderer = "StandingsSection.render" THEN Standings_render(st.val)
             ELSE create_standings_flowables(st.val)
    IN IF st.raised
       THEN [raised |-> TRUE, standings |-> <<>>, labels |-> <<>>, blocks |-> <<>>]
       ELSE [raised |-> r.raised, standings |-> st.val, labels |-> r.labels,
             blocks |-> r.blocks]

\* ------------------------------------------------------ article sections
MaxArticles == 2      \* articles a news provider returns
MaxFetches == 2       \* fetch_data() calls on one article section

\* What provider.get_articles() returns: {'slot', 'entry'} items; garbage
\* marks an entry sanitize_entry() rejects.
ArticleItem(k, garbage) == [slot |-> k, id |-> k, garbage |-> garbage]
ArticleLists ==
    UNION {{[k \in 1..n |-> ArticleItem(k, g[k])] : g \in [1..n -> BOOLEAN]} :
              n \in 0..MaxArticles}

\* How the LLM call for one article ends: a summary, a failure caught inside
\* _generate_llm_summary, or an exception that leaves generate_summary.
LlmOutcomes == {"ok", "fail", "raise"}

\* The world around one article section: whether sanitize_articles works,
\* whether NewsSummarizer can be imported and built, whether it holds an
\* LLM, how the LLM call of each article ends, and whether the Grok
\* provider has a client.
ArticleEnvs ==
    [sanitize : {"ok", "raises"}, summarizer : {"ok", "fails"}, has_llm : BOOLEAN,
     llm : [1..MaxArticles -> LlmOutcomes], client : BOOLEAN]

\* DataProvider.sanitize_articles: garbage entries are filtered out.
sanitize_articles(articles) == SelectSeq(articles, LAMBDA a : ~a.garbage)

\* articles[start_index : start_index + max_articles]
Slice(articles, start_index, n) ==
    SubSeq(articles, start_index + 1,
           IF start_index + n < Len(articles) THEN start_index + n ELSE Len(articles))

ArticleRecord(a, summary) == [slot |-> a.slot, id |-> a.id, summary |-> summary]

\* A loop body of _generate_summaries that skips an article whose LLM call
\* raised.
SummarizeOne_Dropping(a, has_llm, outcome) ==
    IF ~has_llm THEN <<ArticleRecord(a, "original...")>>
    ELSE CASE outcome = "ok" -> <<ArticleRecord(a, "llm summary")>>
           [] outcome = "fail" -> <<ArticleRecord(a, "Summary generation failed.")>>
           [] outcome = "raise" -> <<>>

\* The loop body of _generate_summaries: one record per article. A failure
\* inside the LLM call comes back as the fixed failure sentence; an
\* exception of generate_summary is caught and the truncated original
\* summary is used; so it is without an LLM.
SummarizeOne(a, has_llm, outcome) ==
    IF ~has_llm THEN <<ArticleRecord(a, "original...")>>
    ELSE CASE outcome = "ok" -> <<ArticleRecord(a, "llm summary")>>
           [] outcome = "fail" -> <<ArticleRecord(a, "Summary generation failed.")>>
           [] outcome = "raise" -> <<ArticleRecord(a, "original...")>>

RECURSIVE _generate_summaries(_, _, _)
_generate_summaries(articles, has_llm, llm) ==
    IF articles = <<>> THEN <<>>
    ELSE SummarizeOne(Head(articles), has_llm, llm[Head(articles).id])
            \o _generate_summaries(Tail(articles), has_llm, llm)

\* The except branch of fetch_data: minimal records built from the slice.
Fallback(articles_slice) ==
    [k \in DOMAIN articles_slice |-> ArticleRecord(articles_slice[k], "original...")]

\* NewsArticlesSection.fetch_data()
News_fetch_data(articles, start_index, n, e) ==
    LET clean == IF e.sanitize = "ok" THEN sanitize_articles(articles) ELSE articles
        articles_slice == Slice(clean, start_index, n)
    IN IF e.summarizer = "ok"
       THEN [raised |-> FALSE, data |-> _generate_summaries(articles_slice, e.has_llm, e.llm)]
       ELSE [raised |-> FALSE, data |-> Fallback(articles_slice)]

\* A get_articles() that generates again and extends a filled cache.
Grok_get_articles_Appending(cache, generated, client) ==
    IF ~client THEN [val |-> <<>>, cache |-> cache]
    ELSE IF cache.filled
         THEN [val |-> cache.val \o generated,
               cache |-> [filled |-> TRUE, val |-> cache.val \o generated]]
    ELSE [val |-> generated, cache |-> [filled |-> TRUE, val |-> generated]]

\* GrokMLBNewsProvider.get_articles(): [] without a client, the cache when
\* it is filled, else the generated articles, which fill the cache.
Grok_get_articles(cache, generated, client) ==
    IF ~client THEN [val |-> <<>>, cache |-> cache]
    ELSE IF cache.filled THEN [val |-> cache.val, cache |-> cache]
    ELSE [val |-> generated, cache |-> [filled |-> TRUE, val |-> generated]]

\* GrokGeneratedArticlesSection.fetch_data()
Grok_fetch_data(cache, generated, start_index, n, e) ==
    LET g == Grok_get_articles(cache, generated, e.client)
        articles_slice == Slice(g.val, start_index, n)
    IN [raised |-> FALSE, cache |-> g.cache,
        data |-> [k \in DOMAIN articles_slice |->
                     ArticleRecord(articles_slice[k], "grok copy")]]

\* ------------------------------------------------------- NHL box score
MaxGoalies == 2       \* goalies of the team in a box score payload

\* A key the payload does not carry.
Absent == -1
\* player.get(key, default)
Get(v, default) == IF v = Absent THEN default ELSE v

\* The goalies of the target team in boxscore_data['playerByGameStats'].
SaveCounts == {Absent, 0, 3, 24, 29}
ShotCounts == {Absent, 0, 16, 30}
Goalies == [saves : SaveCounts, shotsAgainst : ShotCounts]
BoxscoreData == [present : BOOLEAN, goalies : SeqsUpTo(Goalies, MaxGoalies)]

\* a / b: ZeroDivisionError when b is 0.
TrueDiv(a, b) ==
    IF b = 0 THEN [raised |-> TRUE, num |-> 0, den |-> 1]
    ELSE [raised |-> FALSE, num |-> a, den |-> b]

\* f"{x:.3f}": the thousandths nearest to x = num/den. A tie between two
\* thousandths only happens here for den = 16, where the float is exact
\* and the formatting rounds to the even digit.
Format3(num, den) ==
    LET q == (1000 * num) \div den
        r == (1000 * num) % den
        t == IF 2 * r > den THEN q + 1
             ELSE IF 2 * r < den THEN q
             ELSE IF q % 2 = 0 THEN q ELSE q + 1
    IN [na |-> FALSE, whole |-> t \div 1000, frac |-> t % 1000]

NA == [na |-> TRUE, whole |-> 0, frac |-> 0]

\* The 'SV%' expression with a guard that lets a zero through.
SvPct_Unguarded(player) ==
    IF Get(player.shotsAgainst, 0) >= 0
    THEN LET d == TrueDiv(Get(player.saves, 0), Get(player.shotsAgainst, 1))
         IN IF d.raised THEN [raised |-> TRUE, val |-> NA]
            ELSE [raised |-> FALSE, val |-> Format3(d.num, d.den)]
    ELSE [raised |-> FALSE, val |-> NA]

\* f"{(get('saves', 0) / get('shotsAgainst', 1)):.3f}"
\*     if get('shotsAgainst', 0) > 0 else 'N/A'
SvPct(player) ==
    IF Get(player.shotsAgainst, 0) > 0
    THEN LET d == TrueDiv(Get(player.saves, 0), Get(player.shotsAgainst, 1))
         IN IF d.raised THEN [raised |-> TRUE, val |-> NA]
            ELSE [raised |-> FALSE, val |-> Format3(d.num, d.den)]
    ELSE [raised |-> FALSE, val |-> NA]

\* One row of goalie_stats.
GoalieRow(player) ==
    [SA |-> Get(player.shotsAgainst, 0), SV |-> Get(player.saves, 0),
     SVpct |-> SvPct(player).val]

\* parse_nhl_boxscore(boxscore_data, team_id), its goalie_stats: empty
\* without data, else a row per goalie; an exception of a row leaves the
\* function.
parse_nhl_boxscore(boxscore_data) ==
    IF ~boxscore_data.present THEN [raised |-> FALSE, goalie_stats |-> <<>>]
    ELSE IF \E k \in DOMAIN boxscore_data.goalies : SvPct(boxscore_data.goalies[k]).raised
    THEN [raised |-> TRUE, goalie_stats |-> <<>>]
    ELSE [raised |-> FALSE,
          goalie_stats |-> [k \in DOMAIN boxscore_data.goalies |->
                               GoalieRow(boxscore_data.goalies[k])]]

\* --------------------------------------------------------------- weather
MaxPeriods == 11      \* forecast periods of an NWS answer

\* How _fetch_forecast_data ends: the periods list, a failed points
\* request, no forecast URL, a failed forecast request, no 'periods' key.
Fetches == {"ok", "points_fail", "no_url", "forecast_fail", "no_periods"}

\* A periods list: day and night periods in turn, starting with either,
\* period k with temperature 50 + k; the period at position missing (if
\* any) has no temperature.
Periods(n, firstIsDay, missing) ==
    [k \in 1..n |->
        [isDaytime |-> IF k % 2 = 1 THEN firstIsDay ELSE ~firstIsDay,
         name |-> k,
         temperature |-> IF k = missing THEN Absent ELSE 50 + k]]
PeriodLists ==
    {Periods(n, d, m) : n \in 0..MaxPeriods, d \in BOOLEAN, m \in 0..2}

\* _fetch_forecast_data(): the periods, or None (here "None") after any
\* failure.
_fetch_forecast_data(fetch, periods) ==
    IF fetch = "ok" THEN [none |-> FALSE, periods |-> periods]
    ELSE [none |-> TRUE, periods |-> <<>>]

\* p.get('temperature', 'N/A'): <<t>> for a temperature, <<>> for 'N/A'.
Temperature(p) == IF p.temperature = Absent THEN <<>> ELSE <<p.temperature>>

\* _make_day_dict for the period at Python index day_idx and the night
\* period after it, if the list has one.
DayDict(periods, day_idx) ==
    [day |-> periods[day_idx + 1].name,
     max_temp |-> Temperature(periods[day_idx + 1]),
     min_temp |-> IF day_idx + 1 < Len(periods)
                  THEN Temperature(periods[day_idx + 2]) ELSE <<>>]

\* The loop over range(4), from Python index i on.
RECURSIVE NextDays(_, _, _)
NextDays(periods, loop_start_index, i) ==
    IF i >= 4 \/ loop_start_index + i * 2 >= Len(periods) THEN <<>>
    ELSE <<DayDict(periods, loop_start_index + i * 2)>>
            \o NextDays(periods, loop_start_index, i + 1)

\* WeatherProvider.get_5_day_forecast(): [] without periods; today's entry
\* from periods[day_period_index], which raises IndexError when the list
\* is too short; then up to four more days.
WeatherProvider_get_5_day_forecast(fetch, periods) ==
    LET f == _fetch_forecast_data(fetch, periods)
        p == f.periods
        day_period_index == IF p[1].isDaytime THEN 0 ELSE 1
        loop_start_index == IF p[1].isDaytime THEN 2 ELSE 3
    IN IF f.none \/ p = <<>> THEN [raised |-> FALSE, val |-> <<>>]
       ELSE IF day_period_index >= Len(p) THEN [raised |-> TRUE, val |-> <<>>]
       ELSE [raised |-> FALSE,
             val |-> <<DayDict(p, day_period_index)>> \o NextDays(p, loop_start_index, 0)]

\* WeatherSection.fetch_data(): the forecast, or [] when the provider raises.
Weather_fetch_data(fetch, periods) ==
    LET r == WeatherProvider_get_5_day_forecast(fetch, periods)
    IN IF r.raised THEN <<>> ELSE r.val

\* ------------------------------------------------------ MLB box score
MaxDays == 3          \* the days a box score can be asked for

\* Days are numbered; NoDate stands for a game_date of None.
NoDate == 0
Days == 1..MaxDays

\* get_last_game_boxscore(team_id, game_date=None): yesterday when no date
\* is given; the box score of the team's completed game of that day, or
\* None. played[d] tells whether the schedule of day d lists such a game.
get_last_game_boxscore(played, yesterday, game_date) ==
    LET d == IF game_date = NoDate THEN yesterday ELSE game_date
    IN IF played[d] THEN [none |-> FALSE, day |-> d] ELSE [none |-> TRUE, day |-> NoDate]

\* parse_boxscore(boxscore_data, team_id): the two stat lists, empty
\* without data; day is the day of the game the stats come from.
parse_boxscore(boxscore_data) ==
    IF boxscore_data.none THEN [stats |-> FALSE, day |-> NoDate]
    ELSE [stats |-> TRUE, day |-> boxscore_data.day]

\* get_box_score(team_id, game_date) of get_box_score.py: game_date is not
\* handed on to get_last_game_boxscore.
module_get_box_score(played, yesterday, game_date) ==
    parse_boxscore(get_last_game_boxscore(played, yesterday, NoDate))

\* MLBDataProvider.get_box_score(team_id, date)
MLBDataProvider_get_box_score(played, yesterday, date) ==
    module_get_box_score(played, yesterday, date)

\* ------------------------------------------------- Grok MLB news provider
MaxGrokArticles == 3  \* largest max_articles of a GrokMLBNewsProvider
MaxGrokCalls == 3     \* get_articles() calls on one provider

\* How the Grok request for story i ends: a reply with a headline, or a
\* failure or empty reply, for which _call_grok returns ('', '').
GrokReplies == [1..MaxGrokArticles -> {"story", "empty"}]

\* _call_grok(prompt): one request; the title it returns, 0 for ''.
_call_grok(replies, i) == IF replies[i + 1] = "story" THEN i + 1 ELSE 0

\* The loop "for i in range(self.max_articles)" of get_articles(): one
\* _call_grok per turn, and an article for every reply with a title.
RECURSIVE GrokLoop(_, _, _, _, _)
GrokLoop(i, max_articles, replies, articles, requests) ==
    IF i >= max_articles THEN [articles |-> articles, requests |-> requests]
    ELSE LET title == _call_grok(replies, i)
         IN IF title = 0
            THEN GrokLoop(i + 1, max_articles, replies, articles, requests + 1)
            ELSE GrokLoop(i + 1, max_articles, replies,
                          Append(articles, [slot |-> i + 1, title |-> title]),
                          requests + 1)

\* A get_articles() that never looks at the cache.
GrokMLBNewsProvider_get_articles_Requerying(client, cache, max_articles, replies) ==
    IF ~client THEN [val |-> <<>>, cache |-> cache, requests |-> 0]
    ELSE LET g == GrokLoop(0, max_articles, replies, <<>>, 0)
         IN [val |-> g.articles, cache |-> [filled |-> TRUE, val |-> g.articles],
             requests |-> g.requests]

\* GrokMLBNewsProvider.get_articles(): [] without a client; the cache when
\* it is not None; else the loop, whose articles become the cache.
\* requests counts the Grok requests the call makes.
GrokMLBNewsProvider_get_articles(client, cache, max_articles, replies) ==
    IF ~client THEN [val |-> <<>>, cache |-> cache, requests |-> 0]
    ELSE IF cache.filled THEN [val |-> cache.val, cache |-> cache, requests |-> 0]
    ELSE LET g == GrokLoop(0, max_articles, replies, <<>>, 0)
         IN [val |-> g.articles, cache |-> [filled |-> TRUE, val |-> g.articles],
             requests |-> g.requests]

\* The start_index of the two sections of GrokMLBNewsScreamsheet; each
\* shows two articles.
GrokSectionStarts == {0, 2}

\* GrokGeneratedArticlesSection.fetch_data(): the section's slice of
\* provider.get_articles().
GrokSection_fetch_data(client, cache, max_articles, replies, start_index) ==
    LET g == GrokMLBNewsProvider_get_articles(client, cache, max_articles, replies)
        lo == start_index + 1
        hi == IF start_index + 2 < Len(g.val) THEN start_index + 2 ELSE Len(g.val)
    IN [all_articles |-> g.val, cache |-> g.cache, requests |-> g.requests,
        data |-> SubSeq(g.val, lo, hi)]

\* ------------------------------------------------------------------ state
MaxAdded == 1         \* sections handed to add_section() before generate()

VARIABLES
    provider,         \* the data provider of the screamsheet
    current_week,     \* NFL provider: whether the constructor found a week
    team,             \* whether team_id and team_name are given
    sections,         \* self.sections
    pc,               \* position of generate(): idle, loop, done, raised
    idx,              \* position of the loop over self.sections (from 1)
    story,            \* the story generate() has built so far
    output,           \* the file at output_filename
    parent_exists,    \* whether the directory of output_filename exists
    returned,         \* the value generate() returned
    trace,            \* history: one record per section generate() visited
    lastCall,         \* history: the last provider call since generate() began
    lastOp,           \* history: the last section method a caller invoked
    feed,             \* the entries of the RSS feed
    favorite_teams,   \* MLBTradeRumorsProvider.favorite_teams
    max_articles,     \* MLBTradeRumorsProvider.max_articles
    news_pc,          \* idle, done: whether get_articles() has returned
    clean_entries,    \* get_articles(): clean_entries
    team_selection,   \* history: final_selection once the team slots are filled
    final_selection,  \* get_articles(): final_selection (positions, 0 = None)
    output_list,      \* get_articles(): the returned list
    score_fn,         \* the schedule-reading function under call
    score_date,       \* its date argument
    score_response,   \* what the schedule URL answers: ok and the payload
    score_pc,         \* idle, done
    score_result,     \* requests made, raised, returned list
    summary_league,   \* the provider asked for a game summary: NHL, MLB
    summary_env,      \* what schedule, game feed and LLM answer
    summary_pc,       \* idle, done
    summary_result,   \* what get_game_summary returned ("None" for None)
    art_kind,         \* the article section class: news, grok
    art_articles,     \* what the provider's feed or LLM yields
    art_cfg,          \* the section's start_index and max_articles
    art_env,          \* the world around the section
    art_cache,        \* GrokMLBNewsProvider._articles_cache
    art_data,         \* the section's self.data ("unset" before a fetch)
    art_calls,        \* fetch_data() calls made
    art_first,        \* history: self.data after the first fetch_data()
    st_renderer,      \* which code renders the standings
    st_response,      \* the standings request: ok and the payload's records
    st_pc,            \* idle, done
    st_result,        \* the DataFrame and what was rendered from it
    box_data,         \* the box score payload handed to parse_nhl_boxscore
    box_pc,           \* idle, done
    box_result,       \* what parse_nhl_boxscore returned
    w_fetch,          \* how the NWS requests end
    w_periods,        \* the periods of the NWS forecast
    w_pc,             \* idle, called, fetched
    w_result,         \* what get_5_day_forecast did last
    w_data,           \* the WeatherSection's data
    mb_played,        \* for each day, whether the team has a completed game
    mb_yesterday,     \* the day before the call
    mb_date,          \* the date asked for
    mb_pc,            \* idle, done
    mb_result,        \* what get_box_score returned
    gk_client,        \* GrokMLBNewsProvider._client is set
    gk_max_articles,  \* GrokMLBNewsProvider.max_articles
    gk_replies,       \* what Grok answers to request i
    gk_cache,         \* GrokMLBNewsProvider._articles_cache
    gk_requests,      \* history: Grok requests made so far
    gk_calls,         \* get_articles() calls made
    gk_returned,      \* what the last get_articles() returned
    gk_data,          \* self.data of the section that fetched last
    gk_first          \* history: the first get_articles() that queried Grok

sheetVars == <<provider, current_week, team, sections, pc, idx, story, output,
               parent_exists, returned, trace, lastCall, lastOp>>
newsVars == <<feed, favorite_teams, max_articles, news_pc, clean_entries,
              team_selection, final_selection, output_list>>
vars == <<provider, current_week, team, sections, pc, idx, story, output,
          parent_exists, returned, trace, lastCall, lastOp, feed, favorite_teams,
          max_articles, news_pc, clean_entries, team_selection, final_selection,
          output_list, score_fn, score_date, score_response, score_pc,
          score_result, summary_league, summary_env, summary_pc, summary_result,
          art_kind, art_articles, art_cfg, art_env, art_cache, art_data, art_calls,
          art_first, st_renderer, st_response, st_pc, st_result,
          box_data, box_pc, box_result,
          w_fetch, w_periods, w_pc, w_result, w_data,
          mb_played, mb_yesterday, mb_date, mb_pc, mb_result,
          gk_client, gk_max_articles, gk_replies, gk_cache, gk_requests, gk_calls, gk_returned, gk_data, gk_first>>
grokVars == <<gk_client, gk_max_articles, gk_replies, gk_cache, gk_requests, gk_calls, gk_returned, gk_data, gk_first>>
mlbBoxVars == <<mb_played, mb_yesterday, mb_date, mb_pc, mb_result>>
weatherVars == <<w_fetch, w_periods, w_pc, w_result, w_data>>
boxVars == <<box_data, box_pc, box_result>>
standingsVars == <<st_renderer, st_response, st_pc, st_result>>
artVars == <<art_kind, art_articles, art_cfg, art_env, art_cache, art_data, art_calls,
             art_first>>
summaryVars == <<summary_league, summary_env, summary_pc, summary_result>>
scoreVars == <<score_fn, score_date, score_response, score_pc, score_result>>

\* What an operation on the screamsheet leaves alone, and likewise for an
\* operation of the MLB Trade Rumors provider.
offSheetVars == <<newsVars, scoreVars, summaryVars, artVars, standingsVars, boxVars, weatherVars, mlbBoxVars, grokVars>>
offNewsVars == <<sheetVars, scoreVars, summaryVars, artVars, standingsVars, boxVars, weatherVars, mlbBoxVars, grokVars>>
offScoreVars == <<sheetVars, newsVars, summaryVars, artVars, standingsVars, boxVars, weatherVars, mlbBoxVars, grokVars>>
offSummaryVars == <<sheetVars, newsVars, scoreVars, artVars, standingsVars, boxVars, weatherVars, mlbBoxVars, grokVars>>
offArtVars == <<sheetVars, newsVars, scoreVars, summaryVars, standingsVars, boxVars, weatherVars, mlbBoxVars, grokVars>>
offStandingsVars == <<sheetVars, newsVars, scoreVars, summaryVars, artVars, boxVars, weatherVars, mlbBoxVars, grokVars>>
offBoxVars == <<sheetVars, newsVars, scoreVars, summaryVars, artVars, standingsVars, weatherVars, mlbBoxVars, grokVars>>
offWeatherVars == <<sheetVars, newsVars, scoreVars, summaryVars, artVars, standingsVars, boxVars, mlbBoxVars, grokVars>>
offMlbBoxVars == <<sheetVars, newsVars, scoreVars, summaryVars, artVars, standingsVars, boxVars, weatherVars, grokVars>>
offGrokVars == <<sheetVars, newsVars, scoreVars, summaryVars, artVars, standingsVars, boxVars, weatherVars, mlbBoxVars>>

output_filename == "screamsheet.pdf"
NoFile == [written |-> FALSE, story |-> <<>>]
Title == Flow("Paragraph", "title", 0, "title")

NoOp == [op |-> "none", sec |-> 0, kind |-> "none", raised |-> FALSE, before |-> None,
         after |-> None, ret |-> FALSE, out |-> <<>>, fetched |-> FALSE,
         ncalls |-> 0, hadOut |-> FALSE, prevOut |-> <<>>]

LastOf(calls) == IF calls = <<>> THEN NoCall ELSE calls[Len(calls)]

\* BaseScreamsheet.__init__ / SportsScreamsheet.__init__
InitSheet ==
    /\ provider \in Providers
    /\ current_week \in BOOLEAN
    /\ (provider # "NFL" => current_week)
    /\ team \in BOOLEAN
    /\ sections = <<>>
    /\ pc = "idle"
    /\ idx = 0
    /\ story = <<>>
    /\ output = NoFile
    /\ parent_exists \in BOOLEAN
    /\ returned = ""
    /\ trace = <<>>
    /\ lastCall = NoCall
    /\ lastOp = NoOp

\* MLBTradeRumorsProvider.__init__ and the feed the RSS URL serves.
InitProvider ==
    /\ feed \in Feeds
    /\ favorite_teams \in {InitFavorites(f) : f \in FavoriteLists}
    /\ max_articles \in 0..MaxSlots
    /\ news_pc = "idle"
    /\ clean_entries = <<>>
    /\ team_selection = <<>>
    /\ final_selection = <<>>
    /\ output_list = <<>>

\* No MLB Trade Rumors provider at work.
NewsAtRest ==
    /\ feed = <<>>
    /\ favorite_teams = DefaultFavorites
    /\ max_articles = 4
    /\ news_pc = "idle"
    /\ clean_entries = <<>>
    /\ team_selection = <<>>
    /\ final_selection = <<>>
    /\ output_list = <<>>

\* No screamsheet at work.
SheetAtRest ==
    /\ provider = "MLB"
    /\ current_week = TRUE
    /\ team = FALSE
    /\ sections = <<>>
    /\ pc = "idle"
    /\ idx = 0
    /\ story = <<>>
    /\ output = NoFile
    /\ parent_exists = TRUE
    /\ returned = ""
    /\ trace = <<>>
    /\ lastCall = NoCall
    /\ lastOp = NoOp

NoResult == [requests |-> <<>>, raised |-> FALSE, val |-> <<>>]

\* No schedule being read.
ScoresAtRest ==
    /\ score_fn = "get_game_scores_for_day"
    /\ score_date = "2023-11-23"
    /\ score_response = [ok |-> TRUE, data |-> [league |-> "NHL", hasKey |-> FALSE, days |-> <<>>]]
    /\ score_pc = "idle"
    /\ score_result = NoResult

\* A caller about to read the schedule of a date; a failed request carries
\* no payload.
InitScores ==
    /\ score_fn \in ScoreFunctions
    /\ score_date \in Dates
    /\ score_response \in
          {[ok |-> TRUE, data |-> d] : d \in PayloadsFor(score_fn)}
            \cup {[ok |-> FALSE, data |-> [league |-> "none", hasKey |-> FALSE, days |-> <<>>]]}
    /\ score_pc = "idle"
    /\ score_result = NoResult

\* No game summary being asked for.
SummaryAtRest ==
    /\ summary_league = "MLB"
    /\ summary_env = [sched |-> "found", feed |-> "ok", llm |-> "text"]
    /\ summary_pc = "idle"
    /\ summary_result = "None"

\* A caller about to ask a provider for a game summary.
InitSummary ==
    /\ summary_league \in {"NHL", "MLB"}
    /\ summary_env \in [sched : ScheduleLookups, feed : GameFeeds, llm : SummaryLlms]
    /\ summary_pc = "idle"
    /\ summary_result = "None"

NoRender == [raised |-> FALSE, standings |-> <<>>, labels |-> <<>>, blocks |-> <<>>]

\* No standings being rendered.
StandingsAtRest ==
    /\ st_renderer = "StandingsSection.render"
    /\ st_response = [ok |-> TRUE, records |-> <<>>]
    /\ st_pc = "done"
    /\ st_result = NoRender

\* A standings request about to be answered and rendered.
InitStandings ==
    /\ st_renderer \in StandingsRenderers
    /\ st_response \in [ok : BOOLEAN, records : StandingsPayloads]
    /\ (~st_response.ok => st_response.records = <<>>)
    /\ st_pc = "idle"
    /\ st_result = NoRender

NoStats == [raised |-> FALSE, goalie_stats |-> <<>>]

\* No box score being parsed.
BoxAtRest ==
    /\ box_data = [present |-> FALSE, goalies |-> <<>>]
    /\ box_pc = "done"
    /\ box_result = NoStats

\* A box score payload about to be parsed.
InitBox ==
    /\ box_data \in BoxscoreData
    /\ (~box_data.present => box_data.goalies = <<>>)
    /\ box_pc = "idle"
    /\ box_result = NoStats

NoForecast == [raised |-> FALSE, val |-> <<>>]

\* No forecast being asked for.
WeatherAtRest ==
    /\ w_fetch = "ok"
    /\ w_periods = <<>>
    /\ w_pc = "done"
    /\ w_result = NoForecast
    /\ w_data = <<>>

\* A WeatherProvider and a WeatherSection on it, the NWS about to answer.
InitWeather ==
    /\ w_fetch \in Fetches
    /\ w_periods \in PeriodLists
    /\ (w_fetch # "ok" => w_periods = <<>>)
    /\ w_pc = "idle"
    /\ w_result = NoForecast
    /\ w_data = <<>>

NoBox == [stats |-> FALSE, day |-> NoDate]

\* No MLB box score being asked for.
MlbBoxAtRest ==
    /\ mb_played = [d \in Days |-> FALSE]
    /\ mb_yesterday = 1
    /\ mb_date = 1
    /\ mb_pc = "done"
    /\ mb_result = NoBox

\* A box score about to be asked for: the days the team played, the day
\* before the call, and the date asked for.
InitMlbBox ==
    /\ mb_played \in [Days -> BOOLEAN]
    /\ mb_yesterday \in Days
    /\ mb_date \in Days
    /\ mb_pc = "idle"
    /\ mb_result = NoBox

NotQueried == [set |-> FALSE, val |-> <<>>, requests |-> 0]

\* No Grok provider at work.
GrokAtRest ==
    /\ gk_client = FALSE
    /\ gk_max_articles = 0
    /\ gk_replies = [i \in 1..MaxGrokArticles |-> "empty"]
    /\ gk_cache = [filled |-> FALSE, val |-> <<>>]
    /\ gk_requests = 0
    /\ gk_calls = 0
    /\ gk_returned = <<>>
    /\ gk_data = <<>>
    /\ gk_first = NotQueried

\* A GrokMLBNewsProvider after __init__, with or without a client, and the
\* replies Grok will give.
InitGrok ==
    /\ gk_client \in BOOLEAN
    /\ gk_max_articles \in 0..MaxGrokArticles
    /\ gk_replies \in GrokReplies
    /\ gk_cache = [filled |-> FALSE, val |-> <<>>]
    /\ gk_requests = 0
    /\ gk_calls = 0
    /\ gk_returned = <<>>
    /\ gk_data = <<>>
    /\ gk_first = NotQueried

NoCache == [filled |-> FALSE, val |-> <<>>]
Unset == [set |-> FALSE, val |-> <<>>]
QuietEnv == [sanitize |-> "ok", summarizer |-> "ok", has_llm |-> TRUE,
             llm |-> [k \in 1..MaxArticles |-> "ok"], client |-> TRUE]

\* No article section at work.
ArticlesAtRest ==
    /\ art_kind = "news"
    /\ art_articles = <<>>
    /\ art_cfg = [start_index |-> 0, max_articles |-> 0]
    /\ art_env = QuietEnv
    /\ art_cache = NoCache
    /\ art_data = Unset
    /\ art_calls = 0
    /\ art_first = Unset

\* NewsArticlesSection.__init__ / GrokGeneratedArticlesSection.__init__ on
\* a provider; the world stays as it is while the section is used.
InitArticles ==
    /\ art_kind \in {"news", "grok"}
    /\ art_articles \in ArticleLists
    /\ art_cfg \in [start_index : 0..1, max_articles : 0..MaxArticles]
    /\ art_env \in ArticleEnvs
    /\ (art_kind = "news" => art_env.client)
    /\ (art_kind = "grok" =>
            /\ art_env.sanitize = "ok" /\ art_env.summarizer = "ok" /\ art_env.has_llm
            /\ art_env.llm = QuietEnv.llm
            /\ \A k \in DOMAIN art_articles : ~art_articles[k].garbage)
    /\ art_cache = NoCache
    /\ art_data = Unset
    /\ art_calls = 0
    /\ art_first = Unset

Init ==
    /\ InitSheet
    /\ NewsAtRest
    /\ ScoresAtRest
    /\ SummaryAtRest
    /\ ArticlesAtRest
    /\ StandingsAtRest
    /\ BoxAtRest
    /\ WeatherAtRest
    /\ MlbBoxAtRest
    /\ GrokAtRest

InitNews ==
    /\ InitProvider
    /\ SheetAtRest
    /\ ScoresAtRest
    /\ SummaryAtRest
    /\ ArticlesAtRest
    /\ StandingsAtRest
    /\ BoxAtRest
    /\ WeatherAtRest
    /\ MlbBoxAtRest
    /\ GrokAtRest

InitScoreCall ==
    /\ InitScores
    /\ SheetAtRest
    /\ NewsAtRest
    /\ SummaryAtRest
    /\ ArticlesAtRest
    /\ StandingsAtRest
    /\ BoxAtRest
    /\ WeatherAtRest
    /\ MlbBoxAtRest
    /\ GrokAtRest

InitArticleSection ==
    /\ InitArticles
    /\ SheetAtRest
    /\ NewsAtRest
    /\ ScoresAtRest
    /\ SummaryAtRest
    /\ StandingsAtRest
    /\ BoxAtRest
    /\ WeatherAtRest
    /\ MlbBoxAtRest
    /\ GrokAtRest

InitStandingsCall ==
    /\ InitStandings
    /\ SheetAtRest
    /\ NewsAtRest
    /\ ScoresAtRest
    /\ SummaryAtRest
    /\ ArticlesAtRest
    /\ BoxAtRest
    /\ WeatherAtRest
    /\ MlbBoxAtRest
    /\ GrokAtRest

InitBoxCall ==
    /\ InitBox
    /\ SheetAtRest
    /\ NewsAtRest
    /\ ScoresAtRest
    /\ SummaryAtRest
    /\ ArticlesAtRest
    /\ StandingsAtRest
    /\ WeatherAtRest
    /\ MlbBoxAtRest
    /\ GrokAtRest

InitWeatherCall ==
    /\ InitWeather
    /\ SheetAtRest
    /\ NewsAtRest
    /\ ScoresAtRest
    /\ SummaryAtRest
    /\ ArticlesAtRest
    /\ StandingsAtRest
    /\ BoxAtRest
    /\ MlbBoxAtRest
    /\ GrokAtRest

InitMlbBoxCall ==
    /\ InitMlbBox
    /\ SheetAtRest
    /\ NewsAtRest
    /\ ScoresAtRest
    /\ SummaryAtRest
    /\ ArticlesAtRest
    /\ StandingsAtRest
    /\ BoxAtRest
    /\ WeatherAtRest
    /\ GrokAtRest

InitGrokCall ==
    /\ InitGrok
    /\ SheetAtRest
    /\ NewsAtRest
    /\ ScoresAtRest
    /\ SummaryAtRest
    /\ ArticlesAtRest
    /\ StandingsAtRest
    /\ BoxAtRest
    /\ WeatherAtRest
    /\ MlbBoxAtRest

InitSummaryCall ==
    /\ InitSummary
    /\ SheetAtRest
    /\ NewsAtRest
    /\ ScoresAtRest
    /\ ArticlesAtRest
    /\ StandingsAtRest
    /\ BoxAtRest
    /\ WeatherAtRest
    /\ MlbBoxAtRest
    /\ GrokAtRest

\* ---------------------------------------------------- section operations
\* BaseScreamsheet.add_section(section)
AddSection ==
    /\ pc = "idle"
    /\ Len(sections) < MaxAdded
    /\ \E kind \in Kinds : sections' = Append(sections, Section(kind))
    /\ UNCHANGED <<provider, current_week, team, parent_exists, pc, idx, story, output,
                   returned, trace, lastCall, lastOp>>
    /\ UNCHANGED offSheetVars

\* A caller invokes section.fetch_data() on a section it holds.
SectionFetchData ==
    /\ pc = "idle"
    /\ \E i \in DOMAIN sections : \E e \in EnvsFor(sections[i].kind) :
        LET s == sections[i]
            f == fetch_data(s, provider, current_week, e)
        IN /\ sections' = [sections EXCEPT ![i].data = f.data]
           /\ lastCall' = LastOf(f.calls)
           /\ lastOp' = [NoOp EXCEPT !.op = "fetch_data", !.kind = s.kind,
                         !.raised = f.raised, !.before = s.data, !.after = f.data,
                         !.fetched = TRUE, !.ncalls = Len(f.calls), !.sec = i]
    /\ UNCHANGED <<provider, current_week, team, parent_exists, pc, idx, story, output, returned, trace>>
    /\ UNCHANGED offSheetVars

\* A caller invokes section.has_content() on a section it holds.
SectionHasContent ==
    /\ pc = "idle"
    /\ \E i \in DOMAIN sections : \E e \in EnvsFor(sections[i].kind) :
        LET s == sections[i]
            h == has_content(s, provider, current_week, e)
        IN /\ sections' = [sections EXCEPT ![i].data = h.data]
           /\ lastCall' = LastOf(h.calls)
           /\ lastOp' = [NoOp EXCEPT !.op = "has_content", !.kind = s.kind,
                         !.raised = h.raised, !.before = s.data, !.after = h.data,
                         !.ret = h.ret, !.fetched = h.calls # <<>>,
                         !.ncalls = Len(h.calls), !.sec = i]
    /\ UNCHANGED <<provider, current_week, team, parent_exists, pc, idx, story, output, returned, trace>>
    /\ UNCHANGED offSheetVars

\* The last operation was a render() of section i that returned.
PrecededByRender(i) == lastOp.op = "render" /\ lastOp.sec = i /\ ~lastOp.raised

\* A caller invokes section.render() on a section it holds.
SectionRender ==
    /\ pc = "idle"
    /\ \E i \in DOMAIN sections : \E e \in EnvsFor(sections[i].kind) :
        LET s == sections[i]
            r == render(s, provider, current_week, e)
        IN /\ sections' = [sections EXCEPT ![i].data = r.data]
           /\ lastCall' = LastOf(r.calls)
           /\ lastOp' = [NoOp EXCEPT !.op = "render", !.kind = s.kind,
                         !.raised = r.raised, !.before = s.data, !.after = r.data,
                         !.out = r.out, !.fetched = r.fetched,
                         !.ncalls = Len(r.calls), !.sec = i,
                         !.hadOut = PrecededByRender(i),
                         !.prevOut = IF PrecededByRender(i) THEN lastOp.out ELSE <<>>]
    /\ UNCHANGED <<provider, current_week, team, parent_exists, pc, idx, story, output, returned, trace>>
    /\ UNCHANGED offSheetVars

\* ------------------------------------------------------------- generate()
\* SportsScreamsheet.build_sections()
build_sections(hasTeam) ==
    <<Section("scores"), Section("standings")>>
        \o (IF hasTeam THEN <<Section("boxscore")>> ELSE <<>>)

\* generate() up to the loop: build the sections, start the story.
GenerateStart ==
    /\ pc = "idle"
    /\ sections' = build_sections(team)
    /\ story' = <<Title, Spacer(12)>>
    /\ idx' = 1
    /\ pc' = "loop"
    /\ trace' = <<>>
    /\ lastCall' = NoCall
    /\ lastOp' = NoOp
    /\ UNCHANGED <<provider, current_week, team, parent_exists, output, returned>>
    /\ UNCHANGED offSheetVars

\* story.extend(section.render()) without the spacer that follows it.
ExtendStory_NoSpacer(st, out) == st \o out

\* story.extend(section.render()); story.append(Spacer(1, 20))
ExtendStory(st, out) == st \o out \o <<Spacer(20)>>

\* One iteration of "for section in self.sections": has_content(), then
\* render() and a spacer. An exception of either leaves generate(). The
\* fetch of has_content() is the first remote call of the iteration, the
\* game summary render() asks for is the second.
generate_section(s, st, p, week, e) ==
    LET h == has_content(s, p, week, e)
        s1 == [s EXCEPT !.data = h.data]
        r == render(s1, p, week, e)
        \* fetch_data() invocations: by has_content(), then by render()
        hf == IF s.data.t = "none" THEN 1 ELSE 0
        rf == IF r.fetched THEN 1 ELSE 0
    IN IF h.raised
       THEN [raisedBy |-> "fetch", sec |-> s, story |-> st, content |-> FALSE,
             out |-> <<>>, calls |-> h.calls, fetches |-> hf]
       ELSE IF ~h.ret
       THEN [raisedBy |-> "none", sec |-> s1, story |-> st, content |-> FALSE,
             out |-> <<>>, calls |-> h.calls, fetches |-> hf]
       ELSE IF r.raised
       THEN [raisedBy |-> "render", sec |-> [s1 EXCEPT !.data = r.data], story |-> st,
             content |-> TRUE, out |-> <<>>, calls |-> h.calls \o r.calls,
             fetches |-> hf + rf]
       ELSE [raisedBy |-> "none",
             sec |-> [s1 EXCEPT !.data = r.data],
             story |-> ExtendStory(st, r.out),
             content |-> TRUE, out |-> r.out, calls |-> h.calls \o r.calls,
             fetches |-> hf + rf]

\* A generate() that writes what it has when a section raises.
FileAfterSection_BestEffort(file, g) ==
    IF g.raisedBy # "none" THEN [written |-> TRUE, story |-> g.story] ELSE file

\* The file after an iteration: generate() catches nothing, so an exception
\* leaves before doc.build(story) and the file is as it was.
FileAfterSection(file, g) == file

GenerateSection ==
    /\ pc = "loop"
    /\ idx <= Len(sections)
    /\ \E e \in EnvsFor(sections[idx].kind) :
       \E g \in {generate_section(sections[idx], story, provider, current_week, e)} :
           /\ sections' = [sections EXCEPT ![idx] = g.sec]
           /\ story' = g.story
           /\ pc' = IF g.raisedBy = "none" THEN "loop" ELSE "raised"
           /\ idx' = IF g.raisedBy = "none" THEN idx + 1 ELSE idx
           /\ output' = FileAfterSection(output, g)
           /\ lastCall' = LastOf(g.calls)
           /\ trace' = Append(trace,
                  [sec |-> idx, kind |-> g.sec.kind, raisedBy |-> g.raisedBy,
                   content |-> g.content, out |-> g.out,
                   failed |-> \E k \in DOMAIN g.calls : g.calls[k].remote # "ok",
                   played |-> g.sec.kind = "boxscore" /\ e.remote = "ok" /\ e.n > 0,
                   fetches |-> g.fetches])
    /\ UNCHANGED <<provider, current_week, team, parent_exists, returned, lastOp>>
    /\ UNCHANGED offSheetVars

\* doc.build(story) opens output_filename for writing: the open fails with
\* FileNotFoundError when the directory of the path does not exist.
doc_build(file, st, dir) ==
    IF dir THEN [raised |-> FALSE, file |-> [written |-> TRUE, story |-> st]]
    ELSE [raised |-> TRUE, file |-> file]

\* After the loop: doc.build(story) writes the file; return the file name.
\* generate() creates no directory.
GenerateBuild ==
    /\ pc = "loop"
    /\ idx > Len(sections)
    /\ \E b \in {doc_build(output, story, parent_exists)} :
        /\ output' = b.file
        /\ returned' = IF b.raised THEN returned ELSE output_filename
        /\ pc' = IF b.raised THEN "raised" ELSE "done"
    /\ UNCHANGED <<provider, current_week, team, parent_exists, sections, idx, story, trace,
                   lastCall, lastOp>>
    /\ UNCHANGED offSheetVars

\* MLBTradeRumorsProvider.get_articles()
GetArticles ==
    /\ news_pc = "idle"
    /\ LET clean == CleanEntries(feed)
           sel == FinalSelection(clean, favorite_teams, max_articles)
       IN /\ clean_entries' = clean
          /\ team_selection' = TeamSelection(clean, favorite_teams, max_articles).final_selection
          /\ final_selection' = sel
          /\ output_list' = OutputList(clean, sel)
    /\ news_pc' = "done"
    /\ UNCHANGED <<feed, favorite_teams, max_articles>>
    /\ UNCHANGED offNewsVars

\* get_game_scores_for_day(date) / provider.get_game_scores(date)
GetGameScores ==
    /\ score_pc = "idle"
    /\ score_result' = ScheduleScores(score_fn, score_date, score_response.ok,
                                      score_response.data)
    /\ score_pc' = "done"
    /\ UNCHANGED <<score_fn, score_date, score_response>>
    /\ UNCHANGED offScoreVars

\* provider.get_game_summary(team_id, date)
GetGameSummary ==
    /\ summary_pc = "idle"
    /\ summary_result' = game_summary(summary_league, summary_env.sched,
                                      summary_env.feed, summary_env.llm)
    /\ summary_pc' = "done"
    /\ UNCHANGED <<summary_league, summary_env>>
    /\ UNCHANGED offSummaryVars

\* section.fetch_data() on a NewsArticlesSection
NewsFetchData ==
    /\ art_kind = "news"
    /\ art_calls < MaxFetches
    /\ \E f \in {News_fetch_data(art_articles, art_cfg.start_index,
                                  art_cfg.max_articles, art_env)} :
        /\ art_data' = IF f.raised THEN art_data ELSE [set |-> TRUE, val |-> f.data]
        /\ art_first' = IF art_calls = 0 THEN art_data' ELSE art_first
    /\ art_calls' = art_calls + 1
    /\ UNCHANGED <<art_kind, art_articles, art_cfg, art_env, art_cache>>
    /\ UNCHANGED offArtVars

\* section.fetch_data() on a GrokGeneratedArticlesSection
GrokFetchData ==
    /\ art_kind = "grok"
    /\ art_calls < MaxFetches
    /\ \E f \in {Grok_fetch_data(art_cache, art_articles, art_cfg.start_index,
                                  art_cfg.max_articles, art_env)} :
        /\ art_data' = [set |-> TRUE, val |-> f.data]
        /\ art_cache' = f.cache
        /\ art_first' = IF art_calls = 0 THEN art_data' ELSE art_first
    /\ art_calls' = art_calls + 1
    /\ UNCHANGED <<art_kind, art_articles, art_cfg, art_env>>
    /\ UNCHANGED offArtVars

Next ==
    \/ AddSection
    \/ SectionFetchData
    \/ SectionHasContent
    \/ SectionRender
    \/ GenerateStart
    \/ GenerateSection
    \/ GenerateBuild

NextNews == GetArticles

Spec == Init /\ [][Next]_vars

SpecNews == InitNews /\ [][NextNews]_vars

NextScores == GetGameScores

SpecScores == InitScoreCall /\ [][NextScores]_vars

\* get_standings() and the rendering of its DataFrame
RenderTheStandings ==
    /\ st_pc = "idle"
    /\ st_result' = RenderStandings(st_renderer, st_response.ok, st_response.records)
    /\ st_pc' = "done"
    /\ UNCHANGED <<st_renderer, st_response>>
    /\ UNCHANGED offStandingsVars

NextStandings == RenderTheStandings

SpecStandings == InitStandingsCall /\ [][NextStandings]_vars

\* parse_nhl_boxscore(boxscore_data, team_id)
ParseNhlBoxscore ==
    /\ box_pc = "idle"
    /\ box_result' = parse_nhl_boxscore(box_data)
    /\ box_pc' = "done"
    /\ UNCHANGED box_data
    /\ UNCHANGED offBoxVars

NextBox == ParseNhlBoxscore

SpecBox == InitBoxCall /\ [][NextBox]_vars

\* provider.get_5_day_forecast()
GetForecast ==
    /\ w_pc = "idle"
    /\ w_result' = WeatherProvider_get_5_day_forecast(w_fetch, w_periods)
    /\ w_pc' = "called"
    /\ UNCHANGED <<w_fetch, w_periods, w_data>>
    /\ UNCHANGED offWeatherVars

\* section.fetch_data() on the WeatherSection
WeatherFetchData ==
    /\ w_pc \in {"idle", "called"}
    /\ w_data' = Weather_fetch_data(w_fetch, w_periods)
    /\ w_result' = WeatherProvider_get_5_day_forecast(w_fetch, w_periods)
    /\ w_pc' = "fetched"
    /\ UNCHANGED <<w_fetch, w_periods>>
    /\ UNCHANGED offWeatherVars

NextWeather == GetForecast \/ WeatherFetchData

SpecWeather == InitWeatherCall /\ [][NextWeather]_vars

\* provider.get_box_score(team_id, date) on an MLBDataProvider
MlbGetBoxScore ==
    /\ mb_pc = "idle"
    /\ mb_result' = MLBDataProvider_get_box_score(mb_played, mb_yesterday, mb_date)
    /\ mb_pc' = "done"
    /\ UNCHANGED <<mb_played, mb_yesterday, mb_date>>
    /\ UNCHANGED offMlbBoxVars

NextMlbBox == MlbGetBoxScore

SpecMlbBox == InitMlbBoxCall /\ [][NextMlbBox]_vars

\* fetch_data() of one of the sections that share the provider
GrokSectionFetchData ==
    /\ gk_calls < MaxGrokCalls
    /\ \E start_index \in GrokSectionStarts :
       \E f \in {GrokSection_fetch_data(gk_client, gk_cache, gk_max_articles,
                                        gk_replies, start_index)} :
           /\ gk_cache' = f.cache
           /\ gk_requests' = gk_requests + f.requests
           /\ gk_returned' = f.all_articles
           /\ gk_data' = f.data
           /\ gk_first' = IF ~gk_first.set /\ gk_client /\ ~gk_cache.filled
                          THEN [set |-> TRUE, val |-> f.all_articles,
                                requests |-> gk_requests + f.requests]
                          ELSE gk_first
    /\ gk_calls' = gk_calls + 1
    /\ UNCHANGED <<gk_client, gk_max_articles, gk_replies>>
    /\ UNCHANGED offGrokVars

NextGrok == GrokSectionFetchData

SpecGrok == InitGrokCall /\ [][NextGrok]_vars

NextArticles == NewsFetchData \/ GrokFetchData

SpecArticles == InitArticleSection /\ [][NextArticles]_vars

NextSummary == GetGameSummary

SpecSummary == InitSummaryCall /\ [][NextSummary]_vars

\* =================================================================== claims

\* C1: for every sports data provider, when the remote call fails (network
\* error or error HTTP status), get_game_scores(date) does not raise and
\* returns an empty list, and get_standings() does not raise and returns an
\* empty result.
C1_FailedCallReturnsEmpty ==
    (lastCall.method \in {"get_game_scores", "get_standings"} /\ lastCall.remote # "ok")
        => (~lastCall.raised /\ IsEmpty(lastCall.val))

\* C2: during generate(), a failed remote call in one section yields an
\* empty or absent result for that section only; it does not end generate(),
\* which goes on to the remaining sections and writes the document.
C2_FailedCallDoesNotEndGenerate ==
    \A k \in DOMAIN trace : trace[k].failed => trace[k].raisedBy # "fetch"

\* The story generate() is to build from what has_content() and render()
\* returned for the sections it visited, in order.
RECURSIVE StoryOf(_)
StoryOf(tr) ==
    IF tr = <<>> THEN <<Title, Spacer(12)>>
    ELSE LET k == Len(tr)
         IN StoryOf(SubSeq(tr, 1, k - 1))
                \o (IF tr[k].content THEN tr[k].out \o <<Spacer(20)>> ELSE <<>>)

\* C3: generate() emits the title first, visits the sections in
\* build_sections() order, appends the rendered flowables of exactly the
\* sections whose has_content() is true, each followed by the fixed spacer,
\* writes the document and returns the output file name.
C3_GenerateAssemblesStory ==
    pc = "done" =>
        /\ Len(trace) = Len(build_sections(team))
        /\ \A k \in DOMAIN trace :
              trace[k].sec = k /\ trace[k].kind = build_sections(team)[k].kind
        /\ output.written
        /\ output.story[1] = Title
        /\ output.story = StoryOf(trace)
        /\ returned = output_filename

C3_Witness ==
    /\ pc = "done"
    /\ \E k \in DOMAIN trace : trace[k].content /\ trace[k].out # <<>>
    /\ \E k \in DOMAIN trace : ~trace[k].content
    /\ \E k \in DOMAIN trace : k > 1 /\ trace[k].content /\ trace[k - 1].content

\* C4: Section.has_content() returns true if and only if the section's
\* fetched data is non-empty, for every kind of fetched data (list, dict,
\* standings table, text, or nothing).
C4_HasContentIffNonEmpty ==
    (lastOp.op = "has_content" /\ ~lastOp.raised)
        => (lastOp.ret <=> ~IsEmpty(lastOp.after))

\* The section as it was before the last section method ran.
LastOpSection == [kind |-> lastOp.kind, data |-> lastOp.before]

\* C5 as stated: render() of already-fetched data makes no provider call and
\* no fetch, leaves the section's data unchanged, returns an empty sequence
\* when there is nothing to show, and two render() calls with no fetch_data()
\* in between produce the same output.
C5_RenderIsPure ==
    (lastOp.op = "render" /\ lastOp.before.t # "none") =>
        /\ lastOp.ncalls = 0
        /\ ~lastOp.fetched
        /\ lastOp.after = lastOp.before
        /\ (~lastOp.raised /\ IsEmpty(lastOp.after) => lastOp.out = <<>>)
        /\ (~lastOp.raised /\ lastOp.hadOut => lastOp.out = lastOp.prevOut)

\* C5 amended: render() of a section whose data is fetched and non-empty (for
\* StandingsSection: not None) does not fetch and leaves the data unchanged;
\* render() returns an empty sequence when there is nothing to show; and,
\* except for BoxScoreSection, which asks the provider for the game summary
\* on every call, such a render() makes no provider call and gives the same
\* output as a render() of the same section directly before it.
C5_RenderOfFetchedData ==
    lastOp.op = "render" =>
        /\ (~RenderFetches(LastOpSection) =>
                ~lastOp.fetched /\ lastOp.after = lastOp.before)
        /\ (~lastOp.raised /\ IsEmpty(lastOp.after) => lastOp.out = <<>>)
        /\ (~RenderFetches(LastOpSection) /\ lastOp.kind # "boxscore" =>
                /\ lastOp.ncalls = 0
                /\ (~lastOp.raised /\ lastOp.hadOut => lastOp.out = lastOp.prevOut))

C5_Witness ==
    /\ lastOp.op = "render"
    /\ ~RenderFetches(LastOpSection)
    /\ lastOp.kind # "boxscore"
    /\ ~lastOp.raised
    /\ lastOp.hadOut
    /\ lastOp.out # <<>>

\* C10 as stated: if a later section fails to render during generate(), the
\* content already appended for earlier sections is still written to the
\* output file.
C10_PartialDocumentWritten ==
    (pc = "raised" /\ Len(trace) > 1 /\ trace[Len(trace)].raisedBy = "render")
        => (output.written /\ output.story = story)

\* C10 amended: if a section fails during generate(), the exception leaves
\* generate() before the document is built: nothing is written, whatever
\* content was appended for earlier sections.
C10_NothingWrittenOnFailure ==
    pc = "raised" => ~output.written

C10_Witness ==
    /\ pc = "raised"
    /\ Len(trace) > 1
    /\ trace[Len(trace)].raisedBy = "render"
    /\ \E k \in 1..(Len(trace) - 1) : trace[k].content /\ trace[k].out # <<>>
    /\ Len(story) > 2

\* C11: generate() writes a file at the configured output path and creates
\* the path's parent directories when they do not exist: once the loop over
\* the sections is through, the file is written and its directory exists.
C11_FileWrittenDirsCreated ==
    (pc \in {"done", "raised"} /\ idx > Len(sections))
        => (output.written /\ parent_exists)

\* ------------------------------------------------- article selection claims
\* The slot with 0-based index k, as a position of final_selection.
SlotPos(k) == k + 1

\* Case-insensitive containment, character by character.
ContainsIgnoringCase(s, sub) ==
    \E i \in 1..(Len(s) - Len(sub) + 1) :
        \A j \in 1..Len(sub) : LowerChar(s[i + j - 1]) = LowerChar(sub[j])

\* The entry carries a blacklisted keyword in its title or its summary.
Blacklisted(entry) ==
    \E k \in 1..Len(EXCLUSION_KEYWORDS) :
        \/ ContainsIgnoringCase(entry.title, EXCLUSION_KEYWORDS[k])
        \/ ContainsIgnoringCase(entry.summary, EXCLUSION_KEYWORDS[k])

\* The links of the entries held by the positions S of a selection.
LinksOf(sel, S) == {clean_entries[sel[p]].link : p \in {q \in S : sel[q] # 0}}

MinOf(S) == CHOOSE x \in S : \A y \in S : x <= y

\* C6: for each favorite team k (k = 1, 2, ... while slot k exists) slot k
\* holds the first article in feed order that has not been used for an
\* earlier slot and whose title contains that team's name.
C6_TeamSlotHoldsFirstMatch ==
    news_pc = "done" =>
        \A k \in 1..Len(favorite_teams) :
            k < max_articles =>
                LET used == LinksOf(final_selection, {SlotPos(j) : j \in 1..(k - 1)})
                    cand == {i \in 1..Len(clean_entries) :
                                /\ clean_entries[i].link \notin used
                                /\ Contains(clean_entries[i].title, favorite_teams[k])}
                IN cand # {} => final_selection[SlotPos(k)] = MinOf(cand)

\* C7: after the team slots are assigned, slot 0 is filled by the first feed
\* entry not already used, and the slots still unfilled are filled from the
\* remaining unused articles in feed order.
C7_RemainingSlotsInFeedOrder ==
    news_pc = "done" =>
        LET used == LinksOf(team_selection, 1..Len(team_selection))
            rest == {i \in 1..Len(clean_entries) : clean_entries[i].link \notin used}
            free == {p \in 1..Len(team_selection) : team_selection[p] = 0}
            \* the number of free slots up to p, and of unused entries up to i
            rank(p) == Cardinality({q \in free : q <= p})
            order(i) == Cardinality({j \in rest : j <= i})
        IN /\ Len(final_selection) = max_articles
           /\ \A p \in 1..Len(final_selection) :
                IF p \in free
                THEN IF rank(p) <= Cardinality(rest)
                     THEN /\ final_selection[p] \in rest
                          /\ order(final_selection[p]) = rank(p)
                     ELSE final_selection[p] = 0
                ELSE final_selection[p] = team_selection[p]

C7_Witness ==
    /\ news_pc = "done"
    /\ \E p \in 2..Len(team_selection) : team_selection[p] # 0
    /\ team_selection[1] = 0 /\ final_selection[1] > 1
    /\ \E p \in 2..Len(team_selection) : team_selection[p] = 0 /\ final_selection[p] # 0

\* The feed positions whose title contains "Padres".
PadresEntries == {i \in 1..Len(feed) : Contains(feed[i].title, Padres)}

\* The position in clean_entries of the feed entry at position i.
CleanPos(i) == Cardinality({j \in 1..i : ~Blacklisted(feed[j])})

C8_Case ==
    /\ news_pc = "done"
    /\ favorite_teams = <<Phillies, Padres, Yankees>>
    /\ max_articles = 4
    /\ Cardinality(PadresEntries) = 1

\* C8 as stated: with favorite teams [Phillies, Padres, Yankees], 4 output
\* slots and a feed in which exactly one entry's title contains "Padres",
\* that entry is assigned to slot 2 (slot 0 being the general one) and to no
\* other slot.
C8_PadresEntryInSlot2 ==
    C8_Case =>
        LET i == CHOOSE x \in PadresEntries : TRUE
        IN /\ ~Blacklisted(feed[i])
           /\ \A p \in 1..Len(final_selection) :
                final_selection[p] = CleanPos(i) <=> p = SlotPos(2)

\* C8 amended: ... that entry, unless it is blacklisted or its link is the
\* link of the article the Phillies slot took, is assigned to slot 2
\* counting the general slot as slot 0 (index 2 of final_selection, output
\* "Section 3") and to no other slot.
C8_PadresEntryInSlot2Unless ==
    C8_Case =>
        LET i == CHOOSE x \in PadresEntries : TRUE
            taken == LinksOf(team_selection, {SlotPos(1)})
        IN (~Blacklisted(feed[i]) /\ feed[i].link \notin taken) =>
               /\ \A p \in 1..Len(final_selection) :
                    final_selection[p] = CleanPos(i) <=> p = SlotPos(2)
               /\ \A j \in 1..Len(output_list) :
                    output_list[j].entry = feed[i] => output_list[j].slot = 3
               /\ \E j \in 1..Len(output_list) :
                    output_list[j].entry = feed[i] /\ output_list[j].slot = 3

C8_Witness ==
    /\ C8_Case
    /\ final_selection[SlotPos(2)] # 0
    /\ Contains(clean_entries[final_selection[SlotPos(2)]].title, Padres)
    /\ final_selection[SlotPos(1)] # 0
    /\ Contains(clean_entries[final_selection[SlotPos(1)]].title, Phillies)
    /\ final_selection[SlotPos(0)] # 0

\* C9: a feed entry whose title or summary contains a blacklisted keyword
\* (compared case-insensitively) is excluded before slot-filling begins and
\* never appears in any output slot, even if its title mentions a favorite
\* team.
C9_BlacklistedNeverSelected ==
    news_pc = "done" =>
        /\ \A i \in 1..Len(clean_entries) : ~Blacklisted(clean_entries[i])
        /\ \A j \in 1..Len(output_list) : ~Blacklisted(output_list[j].entry)
        /\ Len(clean_entries) = Cardinality({i \in 1..Len(feed) : ~Blacklisted(feed[i])})

C9_Witness ==
    /\ news_pc = "done"
    /\ output_list # <<>>
    /\ \E i \in 1..Len(feed) :
        /\ ContainsIgnoringCase(feed[i].title, EXCLUSION_KEYWORDS[9])
        /\ \E k \in 1..Len(favorite_teams) : Contains(feed[i].title, favorite_teams[k])
    /\ \E i \in 1..Len(feed) :
        /\ ~(\E k \in 1..Len(EXCLUSION_KEYWORDS) :
                ContainsIgnoringCase(feed[i].title, EXCLUSION_KEYWORDS[k]))
        /\ Blacklisted(feed[i])

\* --------------------------------------------------- schedule score claims
\* The payload shows no completed game for the date asked for.
ZeroCompleted(data) ==
    \A d \in DOMAIN data.days : \A k \in DOMAIN data.days[d].games :
        IF data.league = "MLB"
        THEN data.days[d].games[k].detailedState # "Final"
        ELSE d = 1 => data.days[d].games[k].gameState \notin {"FINAL", "OFF"}

\* C12: for a date with zero completed games, get_game_scores returns an
\* empty list and never raises, for every schedule payload the API can
\* return for such a date.
C12_NoCompletedGamesGivesEmptyList ==
    (score_pc = "done" /\ score_response.ok /\ ZeroCompleted(score_response.data))
        => (~score_result.raised /\ score_result.val = <<>>)

\* ------------------------------------------------------ game summary claim
\* The summary cannot be produced: no game found, the game data not
\* fetched or not parseable, or the LLM failed.
SummaryFailed(env) ==
    env.sched # "found" \/ env.feed # "ok" \/ env.llm = "fail"

\* C13: get_game_summary(team_id, date) returns None ("not available")
\* whenever the summary cannot be produced: no game found, game-data fetch
\* failure, unparseable game data, or LLM failure.
C13_FailedSummaryIsNone ==
    (summary_pc = "done" /\ SummaryFailed(summary_env)) => summary_result = "None"

\* ------------------------------------------------------------------- C14
\* The slice of articles a NewsArticlesSection works on.
SectionSlice ==
    Slice(IF art_env.sanitize = "ok" THEN sanitize_articles(art_articles) ELSE art_articles,
          art_cfg.start_index, art_cfg.max_articles)

\* C14: when the LLM summarization of an article fails, the failure is
\* caught and the summary is replaced by placeholder text;
\* NewsArticlesSection.fetch_data() does not raise and stores exactly one
\* record per article of its slice, in slice order.
C14_OneRecordPerSlicedArticle ==
    (art_kind = "news" /\ art_calls > 0) =>
        /\ art_data.set
        /\ Len(art_data.val) = Len(SectionSlice)
        /\ \A k \in DOMAIN SectionSlice :
            /\ art_data.val[k].id = SectionSlice[k].id
            /\ art_data.val[k].slot = SectionSlice[k].slot
            /\ (art_env.summarizer = "ok" /\ art_env.has_llm
                   /\ art_env.llm[SectionSlice[k].id] # "ok")
                => art_data.val[k].summary \in {"Summary generation failed.", "original..."}

\* A fetch whose two-article slice had one LLM call raise and one fail.
C14_Witness ==
    /\ art_kind = "news" /\ art_calls > 0
    /\ art_env.summarizer = "ok" /\ art_env.has_llm
    /\ Len(SectionSlice) = 2
    /\ art_env.llm[SectionSlice[1].id] = "raise"
    /\ art_env.llm[SectionSlice[2].id] = "fail"
    /\ Len(art_data.val) = 2
    /\ art_data.val[1].summary = "original..."
    /\ art_data.val[2].summary = "Summary generation failed."

\* ------------------------------------------------------------------- C15
\* C15: fetch_data() is idempotent: called two or more times in a row with
\* the same provider responses, it leaves the section's data as one call
\* leaves it.
C15_FetchDataIdempotent ==
    art_calls >= 2 => (art_first.set /\ art_data = art_first)

\* A Grok section fetched twice, its provider's cache filled by the first
\* fetch, with articles in its data.
C15_Witness ==
    /\ art_kind = "grok"
    /\ art_calls = 2
    /\ art_cache.filled
    /\ art_first.set
    /\ Len(art_data.val) > 0
    /\ Len(art_data.val) < art_cfg.max_articles

\* ------------------------------------------------------------------- C16
\* The games of the day asked for, as the payload lists them.
GamesOfDay(data) ==
    IF data.hasKey /\ data.days # <<>> THEN data.days[1].games ELSE <<>>

\* The positions, in payload order, of the games that are FINAL, OFF or LIVE.
PlayedPositions(games) ==
    SelectSeq([k \in DOMAIN games |-> k],
              LAMBDA k : games[k].gameState \in {"FINAL", "OFF", "LIVE"})

\* C16: get_game_scores_for_day(date) issues exactly one request, to the
\* schedule URL for that date, and returns one GameScore per game of that
\* day whose state is FINAL, OFF or LIVE and none for other states, in
\* payload order, each with the payload's away and home scores (0 where the
\* payload carries none), the team names of the payload and a status equal
\* to the game state.
C16_OneGameScorePerPlayedGame ==
    (score_pc = "done" /\ score_fn = "get_game_scores_for_day") =>
        /\ score_result.requests = <<ScheduleUrl("api-web.nhle.com", score_date)>>
        /\ ~score_result.raised =>
            LET games == GamesOfDay(score_response.data)
                pos == PlayedPositions(games)
            IN /\ Len(score_result.val) = Len(pos)
               /\ \A j \in DOMAIN pos :
                    LET g == games[pos[j]]
                        r == score_result.val[j]
                    IN /\ g.awayScore # NoScore => r.away_score = g.awayScore
                       /\ g.homeScore # NoScore => r.home_score = g.homeScore
                       /\ g.awayScore = NoScore => r.away_score = 0
                       /\ g.homeScore = NoScore => r.home_score = 0
                       /\ r.away_team = <<g.awayTeam.placeName, " ", g.awayTeam.commonName>>
                       /\ r.home_team = <<g.homeTeam.placeName, " ", g.homeTeam.commonName>>
                       /\ r.status = g.gameState

\* A day with a future game followed by a finished one, of which only the
\* finished one, Carolina 0 at Philadelphia 4, is returned.
C16_Witness ==
    /\ score_pc = "done" /\ score_fn = "get_game_scores_for_day"
    /\ ~score_result.raised
    /\ Len(GamesOfDay(score_response.data)) = 2
    /\ GamesOfDay(score_response.data)[1].gameState = "FUT"
    /\ GamesOfDay(score_response.data)[2].gameState = "OFF"
    /\ Len(score_result.val) = 1
    /\ score_result.val[1].away_team = <<"Carolina", " ", "Hurricanes">>
    /\ score_result.val[1].home_score = 4
    /\ score_result.val[1].status = "OFF"

\* ------------------------------------------------------------------- C17
\* The division names of a DataFrame of standings.
DivisionsOf(df) == {df[k].division : k \in DOMAIN df}

\* C17: given standings with D divisions, the rendered standings contain
\* exactly D division blocks and, under each, exactly that division's teams
\* as data rows, sorted by the rank field ascending.
C17_OneBlockPerDivisionSortedByRank ==
    (st_pc = "done" /\ ~st_result.raised /\ st_result.standings # <<>>) =>
        /\ Len(st_result.blocks) = Cardinality(DivisionsOf(st_result.standings))
        /\ \A d \in DivisionsOf(st_result.standings) :
            \E b \in DOMAIN st_result.blocks :
                LET rows == st_result.blocks[b].rows
                IN /\ {rows[k] : k \in DOMAIN rows} =
                        {r \in {st_result.standings[k] : k \in DOMAIN st_result.standings} :
                            r.division = d}
                   /\ \A i, j \in DOMAIN rows :
                        i < j => rows[i].divisionRank < rows[j].divisionRank

\* ------------------------------------------------------------------- C18
\* The thousandths a 'SV%' value stands for.
Thousandths(v) == 1000 * v.whole + v.frac

\* C18: for each goalie the SV% value is saves divided by shotsAgainst
\* with three decimals when shotsAgainst is greater than 0, and the
\* sentinel "N/A" when shotsAgainst is 0; a division error never occurs.
C18_SavePercentage ==
    box_pc = "done" =>
        /\ ~box_result.raised
        /\ box_data.present =>
            /\ Len(box_result.goalie_stats) = Len(box_data.goalies)
            /\ \A k \in DOMAIN box_data.goalies :
                LET g == box_data.goalies[k]
                    saves == IF g.saves = Absent THEN 0 ELSE g.saves
                    v == box_result.goalie_stats[k].SVpct
                IN IF g.shotsAgainst = Absent \/ g.shotsAgainst = 0 THEN v.na
                   ELSE /\ ~v.na
                        /\ v.frac \in 0..999
                        /\ 2 * g.shotsAgainst * Thousandths(v) - 2000 * saves
                              \in (0 - g.shotsAgainst)..g.shotsAgainst

\* 24 saves on 30 shots shown as 0.800 next to a goalie who faced no shot
\* and is shown as N/A.
C18_Witness ==
    /\ box_pc = "done" /\ box_data.present /\ ~box_result.raised
    /\ Len(box_data.goalies) = 2
    /\ box_data.goalies[1] = [saves |-> 24, shotsAgainst |-> 30]
    /\ box_result.goalie_stats[1].SVpct = [na |-> FALSE, whole |-> 0, frac |-> 800]
    /\ box_data.goalies[2] = [saves |-> 0, shotsAgainst |-> 0]
    /\ box_result.goalie_stats[2].SVpct.na

\* ------------------------------------------------------------------- C19
\* C19: in a sports screamsheet the featured team's box score section
\* appears in the document only if that team played on the target date;
\* when it did not, the section has no data and renders nothing.
C19_BoxScoreOnlyIfTeamPlayed ==
    \A k \in DOMAIN trace :
        (trace[k].kind = "boxscore" /\ ~trace[k].played) =>
            (~trace[k].content /\ trace[k].out = <<>>)

\* ------------------------------------------------------------------- C20
\* C20: get_5_day_forecast() returns, for every list of forecast periods
\* the fetch can yield, a list of at most 5 day entries without raising,
\* and an empty list when the fetch fails or yields no periods.
C20_ForecastAtMostFiveDaysNoRaise ==
    w_pc \in {"called", "fetched"} =>
        /\ ~w_result.raised
        /\ Len(w_result.val) <= 5
        /\ (w_fetch # "ok" \/ w_periods = <<>>) => w_result.val = <<>>

\* ------------------------------------------------------------------- C21
\* The renderer meant for the standings of each sport.
RendererOf(p) ==
    CASE p = "NHL" -> "_render_nhl_standings"
      [] p = "MLB" -> "_render_mlb_standings"
      [] p = "NFL" -> "_render_nfl_standings"
      [] p = "NBA" -> "_render_nba_standings"
      [] OTHER -> "_render_generic_standings"

\* C21: StandingsSection.render() detects the sport from the columns of the
\* standings and lays out NHL standings with the NHL renderer, MLB
\* standings with the AL/NL renderer, NFL standings with the NFL renderer
\* and NBA standings with the NBA renderer.
C21_StandingsLaidOutBySport ==
    (lastOp.op = "render" /\ lastOp.kind = "standings" /\ ~lastOp.raised
        /\ lastOp.out # <<>>)
        => lastOp.out[3].x = RendererOf(provider)

\* ------------------------------------------------------------------- C22
\* C22: NHLDataProvider.get_box_score(team_id, date) returns the box score
\* tables of the team's completed game whenever _get_game_pk finds one, and
\* None only when no game is found or a remote call fails; the box score
\* section of an NHL sheet has content exactly when the game was found.
C22_NHLBoxScoreWhenGameFound ==
    provider = "NHL" =>
        \A k \in DOMAIN trace :
            trace[k].kind = "boxscore" => (trace[k].content <=> trace[k].played)

\* ------------------------------------------------------------------- C23
\* C23: MLBDataProvider.get_box_score(team_id, date) returns the box score
\* of the team's game on the date passed as argument, for every date and
\* not only for yesterday.
C23_BoxScoreOfTheDateAsked ==
    mb_pc = "done" =>
        /\ mb_result.stats <=> mb_played[mb_date]
        /\ mb_result.stats => mb_result.day = mb_date

\* ------------------------------------------------------------------- C24
\* C24: a section added with add_section() before generate() is among the
\* sections that generate() processes: the step that starts generate()
\* keeps every section the sheet held.
C24_AddedSectionsAreGenerated ==
    [][(pc = "idle" /\ pc' = "loop") =>
          \A i \in DOMAIN sections : \E j \in DOMAIN sections' :
              sections'[j].kind = sections[i].kind]_vars

\* ------------------------------------------------------------------- C25
\* C25: during one generate() call, fetch_data() of each section the sheet
\* builds is invoked exactly once, by has_content(); render() of a section
\* that has content does not fetch again. Every section the loop reaches
\* has had one fetch, and a generate() that returns has reached them all.
C25_OneFetchPerSection ==
    /\ \A k \in DOMAIN trace : trace[k].fetches = 1
    /\ pc = "done" => Len(trace) = Len(sections)

\* A finished generate() of a sheet with a team whose three sections all
\* had content and were rendered.
C25_Witness ==
    /\ pc = "done"
    /\ Len(trace) = 3
    /\ \A k \in DOMAIN trace : trace[k].content /\ trace[k].out # <<>>
    /\ trace[3].kind = "boxscore"

\* ------------------------------------------------------------ C26, C27
\* The non-blacklisted entries of the feed have links that differ pairwise.
DistinctLinks ==
    \A i, j \in DOMAIN clean_entries :
        i # j => clean_entries[i].link # clean_entries[j].link

\* The slots of final_selection that a team or the backfill has filled.
FilledSlots == {p \in DOMAIN final_selection : final_selection[p] # 0}

\* C26: if all non-blacklisted feed entries have distinct links, no entry
\* appears in more than one output slot of get_articles().
C26_NoEntryInTwoSlots ==
    (news_pc = "done" /\ DistinctLinks) =>
        /\ \A p, q \in FilledSlots :
              p # q => final_selection[p] # final_selection[q]
        /\ \A a, b \in DOMAIN output_list :
              a # b => output_list[a].entry.link # output_list[b].entry.link

\* An entry naming both favorite teams sits in the first team slot, the
\* second team slot and the general slot hold other entries.
C26_Witness ==
    /\ news_pc = "done"
    /\ DistinctLinks
    /\ max_articles >= 3
    /\ Len(clean_entries) = 3
    /\ team_selection[2] # 0
    /\ clean_entries[team_selection[2]].title = T_Both
    /\ team_selection[3] # 0
    /\ final_selection[1] # 0
    /\ Len(output_list) = 3

Min(a, b) == IF a <= b THEN a ELSE b

\* C27: if all non-blacklisted feed entries have distinct links,
\* get_articles() returns exactly min(max_articles, number of non-blacklisted
\* entries) articles, for any list of favorite teams.
C27_ReturnsMinOfSlotsAndEntries ==
    (news_pc = "done" /\ DistinctLinks) =>
        Len(output_list) = Min(max_articles, Len(clean_entries))

\* A blacklisted entry was dropped, a team slot was filled before the
\* backfill, and fewer entries than slots came out.
C27_Witness ==
    /\ news_pc = "done"
    /\ DistinctLinks
    /\ Len(clean_entries) < Len(feed)
    /\ Len(clean_entries) = 2
    /\ max_articles = 4
    /\ team_selection[2] # 0
    /\ Len(output_list) = 2
    /\ output_list[1].slot = 1

\* More entries than slots, with a team slot among them.
C27_WitnessFull ==
    /\ news_pc = "done"
    /\ DistinctLinks
    /\ Len(clean_entries) = 3
    /\ max_articles = 2
    /\ team_selection[2] # 0
    /\ Len(output_list) = 2

\* ------------------------------------------------------------------- C28
\* C28: after the first get_articles() call that queries Grok, every later
\* get_articles() call on the same provider returns the cached list and
\* issues no further Grok request, so the sections sharing the provider
\* cause at most max_articles Grok requests in total.
C28_OneGrokPassPerProvider ==
    /\ gk_requests <= gk_max_articles
    /\ gk_first.set =>
          /\ gk_cache = [filled |-> TRUE, val |-> gk_first.val]
          /\ gk_returned = gk_first.val
          /\ gk_requests = gk_first.requests

\* Three fetches on a provider of three articles: three requests in all,
\* and the last section shows the third article.
C28_Witness ==
    /\ gk_first.set
    /\ gk_calls = 3
    /\ gk_max_articles = 3
    /\ gk_requests = 3
    /\ Len(gk_returned) = 3
    /\ Len(gk_data) = 1
    /\ gk_data[1].slot = 3

\* A reply without a headline is skipped and the shorter list is cached.
C28_WitnessSkipped ==
    /\ gk_first.set
    /\ gk_calls >= 2
    /\ gk_max_articles = 3
    /\ gk_requests = 3
    /\ Len(gk_returned) = 1

====
